---- MODULE Spec2Model ----
(***************************************************************************)
(* Verification model of the HumanRail SDK resilience core: the retry      *)
(* executor and its delay calculator, the polling waiter, the webhook      *)
(* signature functions and the idempotency key helper, in the TypeScript   *)
(* implementation (retry.ts, client.ts, webhook.ts) and the Go             *)
(* implementation (retry.go, client.go, webhook.go).  Each component has   *)
(* its own specification over the shared variables: Spec (retry run),      *)
(* SpecDelay (delay calculator), SpecWait (polling waiter), SpecWaitLive   *)
(* (polling waiter under fair scheduling, every fetch taking time),        *)
(* SpecHook (header constructed, then verified), SpecWire (constructed     *)
(* header rewritten on the wire before it is verified), SpecKey (two key   *)
(* derivations) and SpecPair (two calls on one client, interleaved).  The  *)
(* components that a specification does not run stay at rest.              *)
(*                                                                         *)
(* Time: TypeScript delays are milliseconds, as in the source.  Go         *)
(* durations are counted in the same unit (one model unit = one            *)
(* time.Millisecond) and time.Duration, an int64 in Go, is a signed        *)
(* integer of DurationBits bits here, so that its wrap-around stays        *)
(* inside the range the model checker computes with.                       *)
(* Math.random() and rand.Float64() are the draws k / JitterRes,           *)
(* k in 0 .. JitterRes-1; floating-point rounding error is not modelled.   *)
(* The polling waiter's clock counts milliseconds from the call and moves  *)
(* only where the code waits: during a fetch, a setTimeout or a select.    *)
(* Webhook clocks and timestamps are seconds, on a scale where 1000        *)
(* stands for a present-day Unix time.                                     *)
(***************************************************************************)
EXTENDS Integers, Sequences, FiniteSets, TLC

\* ------------------------------------------------------------------ bounds
MaxRetriesBound == 2
MaxAttempt == 4
JitterRes == 4
DurationBits == 20
MaxChecks == 3
MaxCheckTime == 3
MaxLate == 1

\* --------------------------------------------------------------- constants
DefaultBaseDelayMs == 1000
DefaultMaxDelayMs == 30000
Second == 1000
Minute == 60 * Second
DefaultPollIntervalMs == 2000
DefaultTimeoutMs == 600000
DefaultToleranceSeconds == 300

\* ----------------------------------------------------------------- helpers
\* An optional value (TypeScript `x?: T`): <<>> is undefined, <<v>> is v.
Undefined == <<>>
Some(v) == <<v>>
Get(x) == x[1]

\* `x ?? d` on an optional number.
OrDefault(x, d) == IF x = Undefined THEN d ELSE Get(x)

Min(a, b) == IF a < b THEN a ELSE b

Pow2(n) == 2 ^ n

\* Integer division truncating toward zero (Go's float64 -> int64 conversion).
TruncDiv(a, b) == IF a >= 0 THEN a \div b ELSE -((-a) \div b)

\* time.Duration arithmetic: two's-complement wrap-around to DurationBits bits.
WrapDuration(x) ==
  LET m == Pow2(DurationBits)
      r == x % m
  IN IF r >= m \div 2 THEN r - m ELSE r

MaxDuration == Pow2(DurationBits - 1) - 1

\* ------------------------------------------------- isRetryableStatusCode
isRetryableStatusCode_wide(statusCode) ==
  statusCode = 429 \/ (statusCode >= 400 /\ statusCode <= 599)

isRetryableStatusCode_open(statusCode) ==
  statusCode = 429 \/ statusCode >= 500

\* retry.ts
isRetryableStatusCode(statusCode) ==
  statusCode = 429 \/ (statusCode >= 500 /\ statusCode <= 599)

isRetryableStatusCode_go_only429(statusCode) ==
  statusCode = 429

\* retry.go
isRetryableStatusCode_go(statusCode) ==
  statusCode = 429 \/ (statusCode >= 500 /\ statusCode <= 599)

\* --------------------------------------------------------- calculateDelay
Backoffs == {"exponential", "linear", "none"}

\* Math.round(num / den) for num >= 0: rounds half up.
MathRound(num, den) == (2 * num + den) \div (2 * den)

\* preJitter with the linear policy counting from 0 instead of 1.
preJitter_zeroBased(attempt, backoff, baseDelayMs) ==
  CASE backoff = "exponential" -> baseDelayMs * Pow2(attempt)
    [] backoff = "linear" -> baseDelayMs * attempt
    [] OTHER -> baseDelayMs * Pow2(attempt)

\* The pre-jitter delay of retry.ts (the switch on config.backoff); an
\* unknown strategy takes the default branch.
preJitter(attempt, backoff, baseDelayMs) ==
  CASE backoff = "exponential" -> baseDelayMs * Pow2(attempt)
    [] backoff = "linear" -> baseDelayMs * (attempt + 1)
    [] OTHER -> baseDelayMs * Pow2(attempt)

\* calculateDelay with the clamp to maxDelayMs left out after the jitter.
calculateDelay_unclamped(attempt, config, retryAfterSeconds, rnd) ==
  LET baseDelayMs == OrDefault(config.baseDelayMs, DefaultBaseDelayMs)
      maxDelayMs == OrDefault(config.maxDelayMs, DefaultMaxDelayMs)
  IN IF retryAfterSeconds # Undefined /\ Get(retryAfterSeconds) > 0
     THEN Min(Get(retryAfterSeconds) * 1000, maxDelayMs)
     ELSE IF config.backoff = "none"
     THEN 0
     ELSE LET delayMs == preJitter(attempt, config.backoff, baseDelayMs)
              den == 2 * JitterRes
              num == delayMs * (den + rnd)
          IN MathRound(num, den)

\* calculateDelay that takes a hint of 0 seconds as a hint (>= 0 for > 0).
calculateDelay_zeroHint(attempt, config, retryAfterSeconds, rnd) ==
  LET baseDelayMs == OrDefault(config.baseDelayMs, DefaultBaseDelayMs)
      maxDelayMs == OrDefault(config.maxDelayMs, DefaultMaxDelayMs)
  IN IF retryAfterSeconds # Undefined /\ Get(retryAfterSeconds) >= 0
     THEN Min(Get(retryAfterSeconds) * 1000, maxDelayMs)
     ELSE IF config.backoff = "none"
     THEN 0
     ELSE LET delayMs == preJitter(attempt, config.backoff, baseDelayMs)
              den == 2 * JitterRes
              num == delayMs * (den + rnd)
          IN MathRound(Min(num, maxDelayMs * den), den)

\* retry.ts calculateDelay; rnd is the numerator of the Math.random() draw.
\* delayMs + jitter is the fraction delayMs * (2*JitterRes + rnd) / (2*JitterRes).
calculateDelay(attempt, config, retryAfterSeconds, rnd) ==
  LET baseDelayMs == OrDefault(config.baseDelayMs, DefaultBaseDelayMs)
      maxDelayMs == OrDefault(config.maxDelayMs, DefaultMaxDelayMs)
  IN IF retryAfterSeconds # Undefined /\ Get(retryAfterSeconds) > 0
     THEN Min(Get(retryAfterSeconds) * 1000, maxDelayMs)
     ELSE IF config.backoff = "none"
     THEN 0
     ELSE LET delayMs == preJitter(attempt, config.backoff, baseDelayMs)
              den == 2 * JitterRes
              num == delayMs * (den + rnd)
          IN MathRound(Min(num, maxDelayMs * den), den)

\* The pre-jitter delay of retry.go (the switch on config.Backoff).
preJitter_go(attempt, Backoff, BaseDelay) ==
  CASE Backoff = "linear" -> WrapDuration(BaseDelay * (attempt + 1))
    [] OTHER -> WrapDuration(BaseDelay * Pow2(attempt))

\* calculateDelay (Go) that adds the jitter to the server hint as well.
calculateDelay_go_jitteredHint(attempt, config, retryAfter, rnd) ==
  IF retryAfter > 0
  THEN LET sum == WrapDuration(retryAfter + TruncDiv(rnd * retryAfter, 2 * JitterRes))
       IN IF sum > config.MaxDelay THEN config.MaxDelay ELSE sum
  ELSE IF config.Backoff = "none"
  THEN 0
  ELSE LET delay == preJitter_go(attempt, config.Backoff, config.BaseDelay)
           jitter == TruncDiv(rnd * delay, 2 * JitterRes)
           sum == WrapDuration(delay + jitter)
       IN IF sum > config.MaxDelay THEN config.MaxDelay ELSE sum

\* retry.go calculateDelay; rnd is the numerator of the rand.Float64() draw.
calculateDelay_go(attempt, config, retryAfter, rnd) ==
  IF retryAfter > 0
  THEN IF retryAfter > config.MaxDelay THEN config.MaxDelay ELSE retryAfter
  ELSE IF config.Backoff = "none"
  THEN 0
  ELSE LET delay == preJitter_go(attempt, config.Backoff, config.BaseDelay)
           jitter == TruncDiv(rnd * delay, 2 * JitterRes)
           sum == WrapDuration(delay + jitter)
       IN IF sum > config.MaxDelay THEN config.MaxDelay ELSE sum

\* ------------------------------------------------------- errors and values
\* An error object; index is the attempt that created it (-1: none).
Err(kind, i) == [kind |-> kind, index |-> i]
\* `undefined` (ts) / nil (go) in an error position.
NoError == Err("nil", -1)
\* new Error("Request failed after all retries")
GenericError == Err("generic", -1)
\* ctx.Err(): context.Canceled / context.DeadlineExceeded
CtxErr == Err("ctx", -1)
\* `undefined` response (ts) / nil body (go); attempt i yields the value i + 1.
NoValue == 0

\* What the executor handed back to its caller.
NoReturn == [kind |-> "none", val |-> NoValue, err |-> NoError]
Returned(v) == [kind |-> "value", val |-> v, err |-> NoError]
Failed(e) == [kind |-> "error", val |-> NoValue, err |-> e]

\* ------------------------------------------------------- HTTP level events
\* What one HTTP exchange can produce: a response with a status, a body that
\* can or cannot be read/parsed, and a Retry-After header (absent, or a
\* number of seconds given here in thousandths); a network fault; an abort
\* by the per-request timeout (ts); any other exception (ts).
Statuses == {200, 302, 400, 429, 503, 600}
RetryAfterHeaders == {Undefined, Some(0), Some(500), Some(2000), Some(40000)}

ResponseEvents ==
  [type : {"response"}, status : Statuses, bodyOk : BOOLEAN,
   retryAfter : RetryAfterHeaders]
FaultEvent(t) ==
  [type |-> t, status |-> 0, bodyOk |-> TRUE, retryAfter |-> Undefined]
NoEvent == FaultEvent("none")

\* Number.parseInt(header, 10) on a header of non-negative decimal seconds.
parseInt(header) == Get(header) \div 1000
\* time.Duration(seconds * float64(time.Second)) after strconv.ParseFloat.
parseFloatDuration(header) == (Get(header) * Second) \div 1000

\* ------------------------------------------------ attempt functions (ts)
AttemptResult(response, statusCode, error, retryAfterSeconds, shouldRetry) ==
  [response |-> response, statusCode |-> statusCode, error |-> error,
   retryAfterSeconds |-> retryAfterSeconds, shouldRetry |-> shouldRetry]
NoResult == AttemptResult(NoValue, Undefined, NoError, Undefined, FALSE)

\* The outcome of one call of fn: an AttemptResult, or an exception.
Resolves(result) == [throws |-> FALSE, exc |-> NoError, result |-> result]
Throws(e) == [throws |-> TRUE, exc |-> e, result |-> NoResult]

\* client.ts: the callback EscalationClient.request passes to executeWithRetry.
requestAttempt(ev, i) ==
  CASE ev.type = "response" /\ ev.status >= 200 /\ ev.status <= 299 ->
         IF ev.bodyOk
         THEN Resolves(AttemptResult(i + 1, Undefined, NoError, Undefined, FALSE))
         ELSE Throws(Err("unexpected", i))
    [] ev.type = "response" /\ ~(ev.status >= 200 /\ ev.status <= 299) ->
         LET retryAfterSeconds ==
               IF ev.retryAfter # Undefined
               THEN Some(parseInt(ev.retryAfter))
               ELSE Undefined
             error == Err("api", i)
         IN IF isRetryableStatusCode(ev.status)
            THEN Resolves(AttemptResult(NoValue, Some(ev.status), error,
                                        retryAfterSeconds, TRUE))
            ELSE Resolves(AttemptResult(NoValue, Undefined, error, Undefined, FALSE))
    [] ev.type = "abort" ->
         Resolves(AttemptResult(NoValue, Undefined, Err("timeout", i), Undefined, TRUE))
    [] ev.type = "network" ->
         Resolves(AttemptResult(NoValue, Undefined, Err("network", i), Undefined, TRUE))
    [] OTHER -> Throws(Err("unexpected", i))

TsEvents == ResponseEvents \cup {FaultEvent("network"), FaultEvent("abort"), FaultEvent("other")}

\* A caller's own attempt function: any AttemptResult, or an exception.
CustomOutcomes(i) ==
  {Resolves(AttemptResult(r, sc, e, h, sr)) :
     r \in {NoValue, i + 1}, sc \in {Undefined, Some(400)},
     e \in {NoError, Err("custom", i)}, h \in {Undefined, Some(2)},
     sr \in BOOLEAN}
  \cup {Throws(Err("custom", i))}

\* ------------------------------------------------ attempt function (go)
FnReturn(body, statusCode, retryAfter, err) ==
  [body |-> body, statusCode |-> statusCode, retryAfter |-> retryAfter, err |-> err]
NoFnReturn == FnReturn(NoValue, 0, 0, NoError)

\* client.go: the closure doRequest passes to retryDo.
doRequest(ev, i) ==
  CASE ev.type = "response" /\ ~ev.bodyOk ->
         FnReturn(NoValue, ev.status, 0, Err("read", i))
    [] ev.type = "response" /\ ev.bodyOk /\ ev.status >= 200 /\ ev.status < 300 ->
         FnReturn(i + 1, ev.status, 0, NoError)
    [] ev.type = "response" /\ ev.bodyOk /\ ~(ev.status >= 200 /\ ev.status < 300) ->
         LET retryAfter ==
               IF ev.retryAfter # Undefined THEN parseFloatDuration(ev.retryAfter) ELSE 0
         IN FnReturn(NoValue, ev.status, retryAfter, Err("api", i))
    [] OTHER -> FnReturn(NoValue, 0, 0, Err("network", i))

GoEvents == ResponseEvents \cup {FaultEvent("network")}

\* ---------------------------------------------------------- polling waiter
\* Task statuses a fetch can report; "archived" stands for any string that
\* the SDK does not know.
TaskStatuses ==
  {"posted", "assigned", "submitted", "verified", "failed", "cancelled",
   "expired", "archived"}
NoStatus == "none"

\* client.ts waitForCompletion: the Set terminalStatuses.
terminalStatuses == {"verified", "failed", "cancelled", "expired"}
\* types.go TaskStatus.IsTerminal with the case "expired" forgotten.
IsTerminal_noExpired(s) == s \in {"verified", "failed", "cancelled"}
\* types.go TaskStatus.IsTerminal with "submitted" counted as terminal.
IsTerminal_submitted(s) ==
  s \in {"submitted", "verified", "failed", "cancelled", "expired"}
\* types.go TaskStatus.IsTerminal.
IsTerminal(s) ==
  CASE s \in {"verified", "failed", "cancelled", "expired"} -> TRUE
    [] OTHER -> FALSE

\* Errors of the waiter: `timeout` is TimeoutError.timeoutMs (ts) or
\* TimeoutError.TimeoutSeconds in thousandths (go), NoTimeout on other errors.
NoTimeout == -1
WaitErr(kind, timeout) == [kind |-> kind, timeout |-> timeout]
NoWaitErr == WaitErr("nil", NoTimeout)
TimeoutError(timeout) == WaitErr("timeout", timeout)
\* A status fetch failed by itself (its retries exhausted, a terminal error).
FetchError == WaitErr("fetch", NoTimeout)
\* A status fetch failed because its context was done (go).
FetchCtxError == WaitErr("fetch-ctx", NoTimeout)

\* What one status fetch (tasks.get / GetTask) hands back.
Fetched(status) == [status |-> status, err |-> NoWaitErr]
FetchFailed(e) == [status |-> NoStatus, err |-> e]
NoFetch == Fetched(NoStatus)

\* What the waiter hands back to its caller.
WaitPending == [kind |-> "none", status |-> NoStatus, err |-> NoWaitErr]
WaitReturned(status) == [kind |-> "value", status |-> status, err |-> NoWaitErr]
WaitFailed(e) == [kind |-> "error", status |-> NoStatus, err |-> e]

\* waitForCompletion: `options?.pollIntervalMs ?? 2000`.
pollIntervalOf(options) == OrDefault(options.pollIntervalMs, DefaultPollIntervalMs)
\* waitForCompletion: `options?.timeoutMs ?? 600_000`.
timeoutOf(options) == OrDefault(options.timeoutMs, DefaultTimeoutMs)

\* WaitForCompletion: pollInterval, 2 s unless opts.PollInterval > 0.
pollIntervalOf_go(opts) ==
  IF opts.PollInterval > 0 THEN opts.PollInterval ELSE 2 * Second
\* WaitForCompletion with a Timeout of 0 taken as given (>= 0 for > 0).
timeoutOf_go_zero(opts) ==
  IF opts.Timeout >= 0 THEN opts.Timeout ELSE 10 * Minute
\* WaitForCompletion: timeout, 10 min unless opts.Timeout > 0.
timeoutOf_go(opts) ==
  IF opts.Timeout > 0 THEN opts.Timeout ELSE 10 * Minute

\* Where the waiter goes after a step of its loop.
WaitStep(next, ret, wake) == [next |-> next, ret |-> ret, wake |-> wake]

\* waitForCompletion that goes round the loop without the setTimeout.
waitForCompletion_body_busy(fetched, now, deadline, pollInterval, timeout) ==
  IF fetched.err # NoWaitErr THEN WaitStep("done", WaitFailed(fetched.err), 0)
  ELSE IF fetched.status \in terminalStatuses
  THEN WaitStep("done", WaitReturned(fetched.status), 0)
  ELSE LET remaining == deadline - now
       IN IF remaining <= 0
          THEN WaitStep("done", WaitFailed(TimeoutError(timeout)), 0)
          ELSE WaitStep("sleep", WaitPending, now)

\* waitForCompletion that swallows a failed fetch and polls on.
waitForCompletion_body_swallow(fetched, now, deadline, pollInterval, timeout) ==
  IF fetched.err = NoWaitErr /\ fetched.status \in terminalStatuses
  THEN WaitStep("done", WaitReturned(fetched.status), 0)
  ELSE LET remaining == deadline - now
       IN IF remaining <= 0
          THEN WaitStep("done", WaitFailed(TimeoutError(timeout)), 0)
          ELSE WaitStep("sleep", WaitPending, now + Min(pollInterval, remaining))

\* waitForCompletion: the loop body from the settling of `await this.get()`
\* to the return, the throw or the setTimeout.
waitForCompletion_body(fetched, now, deadline, pollInterval, timeout) ==
  IF fetched.err # NoWaitErr THEN WaitStep("done", WaitFailed(fetched.err), 0)
  ELSE IF fetched.status \in terminalStatuses
  THEN WaitStep("done", WaitReturned(fetched.status), 0)
  ELSE LET remaining == deadline - now
       IN IF remaining <= 0
          THEN WaitStep("done", WaitFailed(TimeoutError(timeout)), 0)
          ELSE WaitStep("sleep", WaitPending, now + Min(pollInterval, remaining))

\* WaitForCompletion: what follows a GetTask, in the first check and in the
\* ticker case alike.
WaitForCompletion_check(fetched) ==
  IF fetched.err # NoWaitErr THEN WaitStep("done", WaitFailed(fetched.err), 0)
  ELSE IF IsTerminal(fetched.status)
  THEN WaitStep("done", WaitReturned(fetched.status), 0)
  ELSE WaitStep("select", WaitPending, 0)

\* time.Ticker: a tick falls in (from, to] when a multiple of the period does.
tickBetween(from, to, period) == to \div period > from \div period
\* nextTick of a ticker that never ticks again.
nextTick_never(now, period) == now
\* The first tick after `now`.
nextTick(now, period) == (now \div period + 1) * period

\* ------------------------------------------------------ webhook signatures
\* Strings are sequences of one-character strings, so that formatting,
\* splitting and parsing are computed as the code computes them.
Digits == <<"0", "1", "2", "3", "4", "5", "6", "7", "8", "9">>
HexDigits == <<"0", "1", "2", "3", "4", "5", "6", "7", "8", "9",
               "a", "b", "c", "d", "e", "f">>
UpperHexDigits == <<"0", "1", "2", "3", "4", "5", "6", "7", "8", "9",
                    "A", "B", "C", "D", "E", "F">>
\* Position of character c in the sequence chars, 0 when it is not in it.
IndexOf(c, chars) ==
  IF \E i \in 1 .. Len(chars) : chars[i] = c
  THEN CHOOSE i \in 1 .. Len(chars) : chars[i] = c
  ELSE 0
IsDigit(c) == IndexOf(c, Digits) > 0

\* `${n}` (ts) and fmt's %d (go) of an integer.
RECURSIVE DecStr(_)
DecStr(n) ==
  IF n < 0 THEN <<"-">> \o DecStr(-n)
  ELSE IF n < 10 THEN <<Digits[n + 1]>>
  ELSE DecStr(n \div 10) \o <<Digits[(n % 10) + 1]>>

\* The number written by a sequence of decimal digits.
RECURSIVE DecVal(_)
DecVal(ds) ==
  IF ds = <<>> THEN 0
  ELSE 10 * DecVal(SubSeq(ds, 1, Len(ds) - 1)) + (IndexOf(ds[Len(ds)], Digits) - 1)

\* The longest prefix of s made of decimal digits.
RECURSIVE DigitPrefix(_)
DigitPrefix(s) ==
  IF s # <<>> /\ IsDigit(Head(s)) THEN <<Head(s)>> \o DigitPrefix(Tail(s)) ELSE <<>>

\* s without its sign character, and the sign it carried.
Unsigned(s) == IF s # <<>> /\ Head(s) \in {"+", "-"} THEN Tail(s) ELSE s
SignOf(s) == IF s # <<>> /\ Head(s) = "-" THEN -1 ELSE 1

\* Number.parseInt(s, 10): a sign, then the digits up to the first other
\* character; NaN (Undefined) when no digit follows the sign.
Number_parseInt(s) ==
  LET ds == DigitPrefix(Unsigned(s))
  IN IF ds = <<>> THEN Undefined ELSE Some(SignOf(s) * DecVal(ds))

\* strconv.ParseInt(s, 10, 64): a sign and digits, nothing else; an error
\* (Undefined) otherwise.
strconv_ParseInt(s) ==
  LET u == Unsigned(s)
  IN IF u # <<>> /\ DigitPrefix(u) = u THEN Some(SignOf(s) * DecVal(u)) ELSE Undefined

\* s.split(sep) / strings.Split(s, sep) for a one-character separator.
RECURSIVE split(_, _)
split(s, sep) ==
  IF \E i \in 1 .. Len(s) : s[i] = sep
  THEN LET i == CHOOSE k \in 1 .. Len(s) :
                  s[k] = sep /\ \A j \in 1 .. k - 1 : s[j] # sep
       IN <<SubSeq(s, 1, i - 1)>> \o split(SubSeq(s, i + 1, Len(s)), sep)
  ELSE <<s>>

\* p.startsWith(prefix) / strings.HasPrefix(p, prefix).
startsWith(p, prefix) ==
  Len(p) >= Len(prefix) /\ SubSeq(p, 1, Len(prefix)) = prefix
\* p.slice(k) / p[k:].
slice(p, k) == SubSeq(p, k + 1, Len(p))

\* A find that looks at the first element only.
find_headOnly(parts, prefix) ==
  IF parts # <<>> /\ startsWith(parts[1], prefix) THEN Some(parts[1]) ELSE Undefined

\* parts.find(pred): the first element of parts that starts with prefix.
find(parts, prefix) ==
  IF \E i \in 1 .. Len(parts) : startsWith(parts[i], prefix)
  THEN LET i == CHOOSE k \in 1 .. Len(parts) :
                  /\ startsWith(parts[k], prefix)
                  /\ \A j \in 1 .. k - 1 : ~startsWith(parts[j], prefix)
       IN Some(parts[i])
  ELSE Undefined

\* The value of a hex digit in either letter case, -1 for any other character.
HexVal(c) ==
  IF IndexOf(c, HexDigits) > 0 THEN IndexOf(c, HexDigits) - 1
  ELSE IF IndexOf(c, UpperHexDigits) > 0 THEN IndexOf(c, UpperHexDigits) - 1
  ELSE -1

\* Buffer.from(s, "hex"): the bytes of the pairs of hex digits of s, up to
\* the first pair that is not two hex digits; a last single character is
\* dropped.
RECURSIVE Buffer_from_hex(_)
Buffer_from_hex(s) ==
  IF Len(s) >= 2 /\ HexVal(s[1]) >= 0 /\ HexVal(s[2]) >= 0
  THEN <<16 * HexVal(s[1]) + HexVal(s[2])>> \o Buffer_from_hex(SubSeq(s, 3, Len(s)))
  ELSE <<>>

\* hex.DecodeString(s): the bytes of s, or an error (Undefined) when s has
\* odd length or a character that is not a hex digit.
hex_DecodeString(s) ==
  IF Len(s) % 2 = 0 /\ \A i \in 1 .. Len(s) : HexVal(s[i]) >= 0
  THEN Some(Buffer_from_hex(s))
  ELSE Undefined

\* The characters that occur in keys and in hashed messages here.
HashChars == <<"0", "1", "2", "3", "4", "5", "6", "7", "8", "9",
               ".", "-", "a", "b", "x", ":">>
\* Two hex digits for each character of s, filled up with "0" to `width`
\* digits: no two strings over HashChars of at most width/2 characters get
\* the same digits.
RECURSIVE StrCode(_, _)
StrCode(s, width) ==
  IF width = 0 THEN <<>>
  ELSE IF s = <<>> THEN <<"0", "0">> \o StrCode(s, width - 2)
  ELSE LET c == IndexOf(Head(s), HashChars)
       IN <<HexDigits[(c \div 16) + 1], HexDigits[(c % 16) + 1]>>
            \o StrCode(Tail(s), width - 2)

\* createHmac("sha256", key).update(message).digest("hex"): a digest free of
\* collisions, in KeyHexLen + MessageHexLen lower-case hex digits where
\* SHA-256 has 64.
KeyHexLen == 8
MessageHexLen == 20
\* A digest that does not depend on the key.
HmacHex_keyless(key, message) ==
  StrCode(<<>>, KeyHexLen) \o StrCode(message, MessageHexLen)
HmacHex(key, message) ==
  StrCode(key, KeyHexLen) \o StrCode(message, MessageHexLen)

\* Math.abs / math.Abs.
Abs(x) == IF x < 0 THEN -x ELSE x

\* "t=", "v1=", "," and "." as strings of the model.
TPrefix == <<"t", "=">>
V1Prefix == <<"v", "1", "=">>
Comma == <<",">>
Dot == <<".">>
EmptyString == <<>>

\* crypto.timingSafeEqual(a, b): a RangeError (Undefined) when the buffers
\* differ in length.
timingSafeEqual(a, b) == IF Len(a) # Len(b) THEN Undefined ELSE Some(a = b)

\* verifyWebhookSignature that rejects an age equal to the tolerance.
verifyWebhookSignature_strictAge(payload, signature, secret, tolerance, now) ==
  LET tol == OrDefault(tolerance, DefaultToleranceSeconds)
      parts == split(signature, ",")
      timestampPart == find(parts, TPrefix)
      signaturePart == find(parts, V1Prefix)
  IN IF payload = EmptyString \/ signature = EmptyString \/ secret = EmptyString
     THEN Some(FALSE)
     ELSE IF timestampPart = Undefined \/ signaturePart = Undefined THEN Some(FALSE)
     ELSE LET timestamp == slice(Get(timestampPart), 2)
              expectedSignature == slice(Get(signaturePart), 3)
              timestampNum == Number_parseInt(timestamp)
          IN IF timestamp = EmptyString \/ expectedSignature = EmptyString THEN Some(FALSE)
             ELSE IF timestampNum = Undefined THEN Some(FALSE)
             ELSE IF Abs(now - Get(timestampNum)) >= tol THEN Some(FALSE)
             ELSE LET signedPayload == timestamp \o Dot \o payload
                      computedHmac == HmacHex(secret, signedPayload)
                      a == Buffer_from_hex(computedHmac)
                      b == Buffer_from_hex(expectedSignature)
                      tried == IF Len(a) # Len(b) THEN Some(FALSE)
                               ELSE timingSafeEqual(a, b)
                  IN IF tried = Undefined THEN Some(FALSE) ELSE tried

\* verifyWebhookSignature without the test for empty arguments.
verifyWebhookSignature_noEmptyCheck(payload, signature, secret, tolerance, now) ==
  LET tol == OrDefault(tolerance, DefaultToleranceSeconds)
      parts == split(signature, ",")
      timestampPart == find(parts, TPrefix)
      signaturePart == find(parts, V1Prefix)
  IN IF timestampPart = Undefined \/ signaturePart = Undefined THEN Some(FALSE)
     ELSE LET timestamp == slice(Get(timestampPart), 2)
              expectedSignature == slice(Get(signaturePart), 3)
              timestampNum == Number_parseInt(timestamp)
          IN IF timestamp = EmptyString \/ expectedSignature = EmptyString THEN Some(FALSE)
             ELSE IF timestampNum = Undefined THEN Some(FALSE)
             ELSE IF Abs(now - Get(timestampNum)) > tol THEN Some(FALSE)
             ELSE LET signedPayload == timestamp \o Dot \o payload
                      computedHmac == HmacHex(secret, signedPayload)
                      a == Buffer_from_hex(computedHmac)
                      b == Buffer_from_hex(expectedSignature)
                      tried == IF Len(a) # Len(b) THEN Some(FALSE)
                               ELSE timingSafeEqual(a, b)
                  IN IF tried = Undefined THEN Some(FALSE) ELSE tried

\* webhook.ts verifyWebhookSignature; now is Math.floor(Date.now() / 1000).
\* The result is Some(verdict), or Undefined when an exception leaves the
\* function; the try block's catch turns an exception into false.
verifyWebhookSignature(payload, signature, secret, tolerance, now) ==
  LET tol == OrDefault(tolerance, DefaultToleranceSeconds)
      parts == split(signature, ",")
      timestampPart == find(parts, TPrefix)
      signaturePart == find(parts, V1Prefix)
  IN IF payload = EmptyString \/ signature = EmptyString \/ secret = EmptyString
     THEN Some(FALSE)
     ELSE IF timestampPart = Undefined \/ signaturePart = Undefined THEN Some(FALSE)
     ELSE LET timestamp == slice(Get(timestampPart), 2)
              expectedSignature == slice(Get(signaturePart), 3)
              timestampNum == Number_parseInt(timestamp)
          IN IF timestamp = EmptyString \/ expectedSignature = EmptyString THEN Some(FALSE)
             ELSE IF timestampNum = Undefined THEN Some(FALSE)
             ELSE IF Abs(now - Get(timestampNum)) > tol THEN Some(FALSE)
             ELSE LET signedPayload == timestamp \o Dot \o payload
                      computedHmac == HmacHex(secret, signedPayload)
                      a == Buffer_from_hex(computedHmac)
                      b == Buffer_from_hex(expectedSignature)
                      tried == IF Len(a) # Len(b) THEN Some(FALSE)
                               ELSE timingSafeEqual(a, b)
                  IN IF tried = Undefined THEN Some(FALSE) ELSE tried

\* webhook.ts constructWebhookSignature.
constructWebhookSignature(payload, secret, timestamp, now) ==
  LET ts == OrDefault(timestamp, now)
      signedPayload == DecStr(ts) \o Dot \o payload
      hmac == HmacHex(secret, signedPayload)
  IN TPrefix \o DecStr(ts) \o Comma \o V1Prefix \o hmac

\* webhook.go VerifyWebhookSignature, the loop over the parts: what is left
\* in the variable assigned from the parts with this prefix (the last one
\* wins; a part with the prefix "t=" is never taken for v1).
RECURSIVE lastPart(_, _, _)
lastPart(parts, prefix, skip) ==
  IF parts = <<>> THEN EmptyString
  ELSE LET p == parts[Len(parts)]
       IN IF startsWith(p, prefix) /\ ~(skip # EmptyString /\ startsWith(p, skip))
          THEN slice(p, Len(prefix))
          ELSE lastPart(SubSeq(parts, 1, Len(parts) - 1), prefix, skip)

\* webhook.go VerifyWebhookSignature; tolerance is a time.Duration, now is
\* time.Now().Unix().
VerifyWebhookSignature(payload, signature, secret, tolerance, now) ==
  LET parts == split(signature, ",")
      timestampStr == lastPart(parts, TPrefix, EmptyString)
      expectedSig == lastPart(parts, V1Prefix, TPrefix)
      timestampNum == strconv_ParseInt(timestampStr)
  IN IF payload = EmptyString \/ signature = EmptyString \/ secret = EmptyString
     THEN FALSE
     ELSE IF timestampStr = EmptyString \/ expectedSig = EmptyString THEN FALSE
     ELSE IF timestampNum = Undefined THEN FALSE
     ELSE IF tolerance > 0 /\ Abs(now - Get(timestampNum)) * Second > tolerance
     THEN FALSE
     ELSE LET signedPayload == timestampStr \o Dot \o payload
              computedHMAC == HmacHex(secret, signedPayload)
              expectedBytes == hex_DecodeString(expectedSig)
              computedBytes == hex_DecodeString(computedHMAC)
          IN IF expectedBytes = Undefined THEN FALSE
             ELSE IF computedBytes = Undefined THEN FALSE
             ELSE Get(computedBytes) = Get(expectedBytes)

\* webhook.go ConstructWebhookSignature.
ConstructWebhookSignature(payload, secret, timestamp, now) ==
  LET ts == IF timestamp = 0 THEN now ELSE timestamp
      signedPayload == DecStr(ts) \o Dot \o payload
      hmacHex == HmacHex(secret, signedPayload)
  IN TPrefix \o DecStr(ts) \o Comma \o V1Prefix \o hmacHex

\* ------------------------------------------------------ idempotency keys
\* parts.join(sep) / strings.Join(parts, sep).
RECURSIVE join(_, _)
join(parts, sep) ==
  IF parts = <<>> THEN EmptyString
  ELSE IF Len(parts) = 1 THEN parts[1]
  ELSE parts[1] \o sep \o join(Tail(parts), sep)

\* The hex digits of the idempotency key's hash: the first 16 of the 32
\* bytes of SHA-256.
KeyHashHexLen == 32
\* createHash("sha256").update(input).digest("hex") / "%x" of
\* sha256.Sum256(input): 2 * KeyHashHexLen hex digits, free of collisions
\* already in the first half, the half that the key keeps (inputs of at most
\* KeyHashHexLen / 2 characters).
Sha256Hex(input) ==
  StrCode(input, KeyHashHexLen) \o StrCode(EmptyString, KeyHashHexLen)

Colon == <<":">>

\* client.ts generateIdempotencyKey.
generateIdempotencyKey(namespace, parts) ==
  LET input == join(parts, Colon)
      hash == SubSeq(Sha256Hex(input), 1, KeyHashHexLen)
  IN namespace \o Colon \o hash

\* GenerateIdempotencyKey that prints the whole digest (`hash[:]`).
GenerateIdempotencyKey_wholeDigest(namespace, parts) ==
  LET input == join(parts, Colon)
      hash == Sha256Hex(input)
  IN namespace \o Colon \o hash

\* client.go GenerateIdempotencyKey.
GenerateIdempotencyKey(namespace, parts) ==
  LET input == join(parts, Colon)
      hash == Sha256Hex(input)
  IN namespace \o Colon \o SubSeq(hash, 1, KeyHashHexLen)

\* ----------------------------------------------------- executeWithRetry
\* The executor's next position: back to the loop head, asleep, or returned.
Step(next, ret, lastError, delay, computed) ==
  [next |-> next, ret |-> ret, lastError |-> lastError, delay |-> delay,
   computed |-> computed]

\* retry.ts: the loop condition `attempt <= config.maxRetries`.
loopContinues(attempt, config) == attempt <= config.maxRetries

\* retry.ts: `result.error ?? lastError ?? new Error(...)`.
thrownError_lastErrorFirst(resultError, lastError) ==
  IF lastError # NoError THEN lastError
  ELSE IF resultError # NoError THEN resultError
  ELSE GenericError
thrownError(resultError, lastError) ==
  IF resultError # NoError THEN resultError
  ELSE IF lastError # NoError THEN lastError
  ELSE GenericError

\* executeWithRetry's loop body with the test of shouldRetry left out.
executeWithRetry_body_ignoresFlag(out, attempt, config, lastError, rnd) ==
  IF out.throws
  THEN Step("done", Failed(out.exc), lastError, 0, FALSE)
  ELSE LET result == out.result
       IN IF attempt = config.maxRetries
          THEN IF result.response # NoValue
               THEN Step("done", Returned(result.response), lastError, 0, FALSE)
               ELSE Step("done", Failed(thrownError(result.error, lastError)),
                         lastError, 0, FALSE)
          ELSE LET delayMs == calculateDelay(attempt, config, result.retryAfterSeconds, rnd)
               IN Step(IF delayMs > 0 THEN "wait" ELSE "call", NoReturn,
                       result.error, delayMs, TRUE)

\* executeWithRetry's loop body that goes to the next attempt without the
\* sleep.
executeWithRetry_body_noSleep(out, attempt, config, lastError, rnd) ==
  IF out.throws
  THEN Step("done", Failed(out.exc), lastError, 0, FALSE)
  ELSE LET result == out.result
       IN IF ~result.shouldRetry \/ attempt = config.maxRetries
          THEN IF result.response # NoValue
               THEN Step("done", Returned(result.response), lastError, 0, FALSE)
               ELSE Step("done", Failed(thrownError(result.error, lastError)),
                         lastError, 0, FALSE)
          ELSE LET delayMs == calculateDelay(attempt, config, result.retryAfterSeconds, rnd)
               IN Step("call", NoReturn, result.error, delayMs, TRUE)

\* executeWithRetry's loop body with the test for the last attempt left out.
executeWithRetry_body_sleepsLast(out, attempt, config, lastError, rnd) ==
  IF out.throws
  THEN Step("done", Failed(out.exc), lastError, 0, FALSE)
  ELSE LET result == out.result
       IN IF ~result.shouldRetry
          THEN IF result.response # NoValue
               THEN Step("done", Returned(result.response), lastError, 0, FALSE)
               ELSE Step("done", Failed(thrownError(result.error, lastError)),
                         lastError, 0, FALSE)
          ELSE LET delayMs == calculateDelay(attempt, config, result.retryAfterSeconds, rnd)
               IN Step(IF delayMs > 0 THEN "wait" ELSE "call", NoReturn,
                       result.error, delayMs, TRUE)

\* executeWithRetry's loop body with a catch around `await fn(attempt)` that
\* treats an exception as a retryable failure.
executeWithRetry_body_catches(out, attempt, config, lastError, rnd) ==
  IF out.throws /\ attempt = config.maxRetries
  THEN Step("done", Failed(out.exc), lastError, 0, FALSE)
  ELSE IF out.throws
  THEN LET delayMs == calculateDelay(attempt, config, Undefined, rnd)
       IN Step(IF delayMs > 0 THEN "wait" ELSE "call", NoReturn, out.exc,
               delayMs, TRUE)
  ELSE LET result == out.result
       IN IF ~result.shouldRetry \/ attempt = config.maxRetries
          THEN IF result.response # NoValue
               THEN Step("done", Returned(result.response), lastError, 0, FALSE)
               ELSE Step("done", Failed(thrownError(result.error, lastError)),
                         lastError, 0, FALSE)
          ELSE LET delayMs == calculateDelay(attempt, config, result.retryAfterSeconds, rnd)
               IN Step(IF delayMs > 0 THEN "wait" ELSE "call", NoReturn,
                       result.error, delayMs, TRUE)

\* retry.ts: one iteration of executeWithRetry after `await fn(attempt)`.
executeWithRetry_body(out, attempt, config, lastError, rnd) ==
  IF out.throws
  THEN Step("done", Failed(out.exc), lastError, 0, FALSE)
  ELSE LET result == out.result
       IN IF ~result.shouldRetry \/ attempt = config.maxRetries
          THEN IF result.response # NoValue
               THEN Step("done", Returned(result.response), lastError, 0, FALSE)
               ELSE Step("done", Failed(thrownError(result.error, lastError)),
                         lastError, 0, FALSE)
          ELSE LET delayMs == calculateDelay(attempt, config, result.retryAfterSeconds, rnd)
               IN Step(IF delayMs > 0 THEN "wait" ELSE "call", NoReturn,
                       result.error, delayMs, TRUE)

\* ----------------------------------------------------------------- retryDo
\* retry.go: the loop condition `attempt <= config.MaxRetries`.
loopContinues_go(attempt, config) == attempt <= config.MaxRetries

\* retryDo's loop body without the ctx.Err() test on a failure with no status.
retryDo_body_noCtxCheck(out, attempt, config, ctxErr, lastErr, rnd) ==
  IF out.err = NoError
  THEN Step("done", Returned(out.body), lastErr, 0, FALSE)
  ELSE IF out.statusCode > 0 /\ ~isRetryableStatusCode_go(out.statusCode)
  THEN Step("done", Failed(out.err), out.err, 0, FALSE)
  ELSE IF attempt = config.MaxRetries
  THEN Step("done", Failed(out.err), out.err, 0, FALSE)
  ELSE LET delay == calculateDelay_go(attempt, config, out.retryAfter, rnd)
       IN Step(IF delay > 0 THEN "wait" ELSE "call", NoReturn, out.err, delay, TRUE)

\* retry.go: one iteration of retryDo after fn(attempt) returned; ctxErr is
\* ctx.Err() != nil at that moment.
retryDo_body(out, attempt, config, ctxErr, lastErr, rnd) ==
  IF out.err = NoError
  THEN Step("done", Returned(out.body), lastErr, 0, FALSE)
  ELSE IF out.statusCode > 0 /\ ~isRetryableStatusCode_go(out.statusCode)
  THEN Step("done", Failed(out.err), out.err, 0, FALSE)
  ELSE IF attempt = config.MaxRetries
  THEN Step("done", Failed(out.err), out.err, 0, FALSE)
  ELSE IF out.statusCode = 0 /\ ctxErr
  THEN Step("done", Failed(out.err), out.err, 0, FALSE)
  ELSE LET delay == calculateDelay_go(attempt, config, out.retryAfter, rnd)
       IN Step(IF delay > 0 THEN "wait" ELSE "call", NoReturn, out.err, delay, TRUE)

\* retry.go: the select between ctx.Done() and timer.C of a goroutine parked
\* on both: the first channel to become ready decides.
selectWait_timerOnly(ctxDone) == "timer"
selectWait(ctxDone) == IF ctxDone THEN "ctx" ELSE "timer"

\* ------------------------------------------------------------------ state
VARIABLES
  lang,       \* retry executor: "ts" (executeWithRetry) or "go" (retryDo)
  fnKind,     \* retry executor: "request" (the client's callback) or "custom"
  config,     \* retry executor: RetryConfig
  pc,         \* retry executor: "call" loop head, "infn" attempt in flight,
              \*   "wait" asleep between attempts, "done" returned
  attempt,    \* retry executor: loop variable
  calls,      \* retry executor: number of invocations of fn so far
  sleeps,     \* retry executor: number of waits entered so far
  nDelay,     \* retry executor: number of calls of calculateDelay so far
  delay,      \* retry executor: last computed delay
  lastError,  \* retry executor: lastError (ts) / lastErr (go)
  ret,        \* retry executor: what was handed back to the caller
  cancelled,  \* retry executor: the caller's cancellation signal has fired
  ctxSeen,    \* retry executor: ctx.Err() != nil as read after the last attempt
  lastEv,     \* retry executor: HTTP event of the last finished attempt
  lastOut,    \* retry executor: what fn returned in the last finished attempt
  hist,       \* retry executor: classification of every finished attempt
  ctxAtCall,  \* retry executor: the signal had fired when fn was invoked

  dLang,      \* delay calculator: implementation under evaluation, "ts" or "go"
  dAttempt,   \* delay calculator: attempt index argument
  dConfig,    \* delay calculator: RetryConfig argument
  dHint,      \* delay calculator: retryAfterSeconds (ts) / retryAfter (go)
  dRnd,       \* delay calculator: numerator of the random draw
  dOut,       \* delay calculator: returned delay, Undefined before the call

  wLang,      \* waiter: "ts" (waitForCompletion) or "go" (WaitForCompletion)
  wOptions,   \* waiter: the options argument
  wPc,        \* waiter: "head" loop test (ts), "first" before the first check
              \*   (go), "check" fetch in flight, "sleep" in setTimeout (ts),
              \*   "select" at the select (go), "parked" blocked in it, "done"
  wNow,       \* waiter: the clock, in ms since the call
  wDeadline,  \* waiter: deadline (ts) / deadline of the derived ctx (go)
  wChecks,    \* waiter: number of status fetches started
  wSleeps,    \* waiter: number of suspensions entered between fetches
  wWake,      \* waiter: when the pending setTimeout is due (ts)
  wTick,      \* waiter: a tick is buffered in ticker.C (go)
  wCancelled, \* waiter: the caller's ctx has been cancelled (go)
  wCancelPc,  \* waiter: where the waiter was when that happened
  wRet,       \* waiter: what was handed back to the caller
  wLast,      \* waiter: what the last finished fetch handed back
  wLastStart, \* waiter: when the last fetch was started
  wLastReturn,\* waiter: when the last fetch came back
  wPrevReturn,\* waiter: when the fetch before the last started one came back

  hLang,      \* webhook: implementation under evaluation, "ts" or "go"
  hPayload,   \* webhook: the payload argument
  hSecret,    \* webhook: the secret argument
  hTimestamp, \* webhook: the timestamp argument of construct
  hTolerance, \* webhook: the tolerance argument of verify
  hNowC,      \* webhook: the clock, in seconds, when construct runs
  hNow,       \* webhook: the clock, in seconds, when verify runs
  hHeader,    \* webhook: the header construct returned, Undefined before
  hVerdict,   \* webhook: what verify returned, Undefined before
  hRewrite,   \* webhook: how the header on the wire departs from the one
              \*   construct returned, "none" when it does not
  hRaised,    \* webhook: a call of verify ended in an exception
  hPayload2,  \* webhook: the payload argument of a second call of verify
  hSecret2,   \* webhook: the secret argument of that call
  hVerdict2,  \* webhook: what that call returned, Undefined before

  kLang,      \* idempotency key: implementation under evaluation
  kNamespace, \* idempotency key: the namespace argument of both calls
  kPartsA,    \* idempotency key: the parts of the first call
  kPartsB,    \* idempotency key: the parts of the second call
  kKeyA,      \* idempotency key: the first call's key, Undefined before
  kKeyB,      \* idempotency key: the second call's key, Undefined before

  pLang,      \* concurrent calls: the SDK both calls belong to
  pConfig,    \* concurrent calls: the client's RetryConfig, which they share
  pNow,       \* concurrent calls: the clock, in ms
  pInv,       \* concurrent calls: the local variables of each call
  pLog        \* concurrent calls: what each call has received so far: the
              \*   outcomes of its attempts or fetches, its random draws and
              \*   its clock readings

kvars == <<kLang, kNamespace, kPartsA, kPartsB, kKeyA, kKeyB>>

pvars == <<pLang, pConfig, pNow, pInv, pLog>>

dvars == <<dLang, dAttempt, dConfig, dHint, dRnd, dOut>>

rvars == <<lang, fnKind, config, pc, attempt, calls, sleeps, nDelay, delay,
           lastError, ret, cancelled, ctxSeen, lastEv, lastOut, hist,
           ctxAtCall>>

hvars == <<hLang, hPayload, hSecret, hTimestamp, hTolerance, hNowC, hNow,
           hHeader, hVerdict, hRewrite, hRaised, hPayload2, hSecret2,
           hVerdict2>>

wvars == <<wLang, wOptions, wPc, wNow, wDeadline, wChecks, wSleeps, wWake,
           wTick, wCancelled, wCancelPc, wRet, wLast, wLastStart, wLastReturn,
           wPrevReturn>>

vars == <<lang, fnKind, config, pc, attempt, calls, sleeps, nDelay, delay,
          lastError, ret, cancelled, ctxSeen, lastEv, lastOut, hist,
          ctxAtCall,
          dLang, dAttempt, dConfig, dHint, dRnd, dOut,
          wLang, wOptions, wPc, wNow, wDeadline, wChecks, wSleeps, wWake,
          wTick, wCancelled, wCancelPc, wRet, wLast, wLastStart, wLastReturn,
          wPrevReturn,
          hLang, hPayload, hSecret, hTimestamp, hTolerance, hNowC, hNow,
          hHeader, hVerdict, hRewrite, hRaised, hPayload2, hSecret2,
          hVerdict2,
          kLang, kNamespace, kPartsA, kPartsB, kKeyA, kKeyB,
          pLang, pConfig, pNow, pInv, pLog>>

\* No concurrent calls, while another component runs.
PairIdle ==
  /\ pLang = "ts"
  /\ pConfig = [maxRetries |-> 0, backoff |-> "none",
                baseDelayMs |-> Undefined, maxDelayMs |-> Undefined]
  /\ pNow = 0
  /\ pInv = <<>>
  /\ pLog = <<>>

\* The idempotency key helper at rest, while another component runs.
KeyIdle ==
  /\ kLang = "ts"
  /\ kNamespace = EmptyString
  /\ kPartsA = <<>>
  /\ kPartsB = <<>>
  /\ kKeyA = Undefined
  /\ kKeyB = Undefined

\* The webhook functions at rest, while another component runs.
HookIdle ==
  /\ hLang = "ts"
  /\ hPayload = EmptyString
  /\ hSecret = EmptyString
  /\ hTimestamp = Undefined
  /\ hTolerance = Undefined
  /\ hNowC = 0
  /\ hNow = 0
  /\ hHeader = Undefined
  /\ hVerdict = Undefined
  /\ hRewrite = "none"
  /\ hRaised = FALSE
  /\ hPayload2 = EmptyString
  /\ hSecret2 = EmptyString
  /\ hVerdict2 = Undefined

\* The polling waiter at rest, while another component runs.
WaitIdle ==
  /\ wLang = "ts"
  /\ wOptions = [pollIntervalMs |-> Undefined, timeoutMs |-> Undefined]
  /\ wPc = "done"
  /\ wNow = 0
  /\ wDeadline = 0
  /\ wChecks = 0
  /\ wSleeps = 0
  /\ wWake = 0
  /\ wTick = FALSE
  /\ wCancelled = FALSE
  /\ wCancelPc = "none"
  /\ wRet = WaitPending
  /\ wLast = NoFetch
  /\ wLastStart = 0
  /\ wLastReturn = 0
  /\ wPrevReturn = 0

\* The delay calculator at rest, while the retry executor runs.
DelayIdle ==
  /\ dLang = "ts"
  /\ dAttempt = 0
  /\ dConfig = [backoff |-> "none", baseDelayMs |-> Undefined, maxDelayMs |-> Undefined]
  /\ dHint = Undefined
  /\ dRnd = 0
  /\ dOut = Undefined

\* ------------------------------------------------------ retry executor
\* RetryConfig as EscalationClient builds it: maxRetries and backoff from the
\* options, delays left to their defaults.
TsRetryConfigs ==
  [maxRetries : -1 .. MaxRetriesBound, backoff : Backoffs,
   baseDelayMs : {Undefined}, maxDelayMs : {Undefined}]

\* DefaultRetryConfig() changed by WithMaxRetries and WithBackoff.
GoRetryConfigs ==
  [MaxRetries : -1 .. MaxRetriesBound, Backoff : Backoffs,
   BaseDelay : {1 * Second}, MaxDelay : {30 * Second}]

\* Classification of an attempt's outcome, for the record kept in hist.
TsClass(out) ==
  IF out.throws THEN "thrown"
  ELSE IF out.result.shouldRetry
       THEN IF out.result.response = NoValue THEN "retryable" ELSE "retry-response"
       ELSE IF out.result.response # NoValue THEN "success" ELSE "terminal"

GoClass(out) ==
  IF out.err = NoError THEN "success"
  ELSE IF out.statusCode = 0 THEN "transport"
  ELSE IF out.statusCode = 429 \/ out.statusCode \in 500 .. 599 THEN "retryable"
  ELSE "terminal"

\* The retry executor at rest, while the delay calculator is evaluated.
RetryIdle ==
  /\ lang = "ts"
  /\ fnKind = "request"
  /\ config = [maxRetries |-> 0, backoff |-> "none",
               baseDelayMs |-> Undefined, maxDelayMs |-> Undefined]
  /\ pc = "done"
  /\ attempt = 0
  /\ calls = 0
  /\ sleeps = 0
  /\ nDelay = 0
  /\ delay = 0
  /\ lastError = NoError
  /\ ret = NoReturn
  /\ cancelled = FALSE
  /\ ctxSeen = FALSE
  /\ ctxAtCall = FALSE
  /\ lastEv = NoEvent
  /\ lastOut = Resolves(NoResult)
  /\ hist = <<>>

RetryInit ==
  /\ PairIdle
  /\ KeyIdle
  /\ DelayIdle
  /\ WaitIdle
  /\ HookIdle
  /\ lang \in {"ts", "go"}
  /\ fnKind \in IF lang = "ts" THEN {"request", "custom"} ELSE {"request"}
  /\ config \in IF lang = "ts" THEN TsRetryConfigs ELSE GoRetryConfigs
  /\ pc = "call"
  /\ attempt = 0
  /\ calls = 0
  /\ sleeps = 0
  /\ nDelay = 0
  /\ delay = 0
  /\ lastError = NoError
  /\ ret = NoReturn
  /\ cancelled = FALSE
  /\ ctxSeen = FALSE
  /\ ctxAtCall = FALSE
  /\ lastEv = NoEvent
  /\ lastOut = IF lang = "ts" THEN Resolves(NoResult) ELSE NoFnReturn
  /\ hist = <<>>

\* The caller's cancellation signal fires (go: ctx is cancelled or its
\* deadline passes).  executeWithRetry takes no such signal and reads none.
Cancel ==
  /\ pc # "done"
  /\ ~cancelled
  /\ cancelled' = TRUE
  /\ UNCHANGED <<lang, fnKind, config, pc, attempt, calls, sleeps, nDelay, delay,
                 lastError, ret, ctxSeen, ctxAtCall, lastEv, lastOut, hist>>
  /\ UNCHANGED <<dvars, wvars, hvars, kvars, pvars>>

\* Applies the outcome of a loop iteration to the executor's state.
Apply(st, ev, out, class) ==
  /\ pc' = st.next
  /\ attempt' = IF st.next = "call" THEN attempt + 1 ELSE attempt
  /\ sleeps' = IF st.next = "wait" THEN sleeps + 1 ELSE sleeps
  /\ nDelay' = IF st.computed THEN nDelay + 1 ELSE nDelay
  /\ delay' = IF st.computed THEN st.delay ELSE delay
  /\ lastError' = st.lastError
  /\ ret' = st.ret
  /\ lastEv' = ev
  /\ lastOut' = out
  /\ hist' = Append(hist, class)

\* executeWithRetry: `await fn(attempt)` is started.
TsCall ==
  /\ lang = "ts"
  /\ pc = "call"
  /\ loopContinues(attempt, config)
  /\ pc' = "infn"
  /\ calls' = calls + 1
  /\ ctxAtCall' = cancelled
  /\ UNCHANGED <<lang, fnKind, config, attempt, sleeps, nDelay, delay, lastError,
                 ret, cancelled, ctxSeen, lastEv, lastOut, hist>>
  /\ UNCHANGED <<dvars, wvars, hvars, kvars, pvars>>

\* executeWithRetry: the loop ends without a return; the trailing throw.
TsFallThrough ==
  /\ lang = "ts"
  /\ pc = "call"
  /\ ~loopContinues(attempt, config)
  /\ pc' = "done"
  /\ ret' = Failed(IF lastError # NoError THEN lastError ELSE GenericError)
  /\ UNCHANGED <<lang, fnKind, config, attempt, calls, sleeps, nDelay, delay,
                 lastError, cancelled, ctxSeen, ctxAtCall, lastEv, lastOut, hist>>
  /\ UNCHANGED <<dvars, wvars, hvars, kvars, pvars>>

\* executeWithRetry: fn(attempt) settles and the rest of the iteration runs,
\* up to the return, the throw, the sleep or the next iteration.
TsReturn ==
  /\ lang = "ts"
  /\ pc = "infn"
  /\ \E ev \in IF fnKind = "request" THEN TsEvents ELSE {NoEvent} :
       \E out \in IF fnKind = "request" THEN {requestAttempt(ev, attempt)}
                  ELSE CustomOutcomes(attempt) :
         \E rnd \in 0 .. JitterRes - 1 :
           Apply(executeWithRetry_body(out, attempt, config, lastError, rnd),
                 ev, out, TsClass(out))
  /\ UNCHANGED <<lang, fnKind, config, calls, cancelled, ctxSeen, ctxAtCall>>
  /\ UNCHANGED <<dvars, wvars, hvars, kvars, pvars>>

\* executeWithRetry: the setTimeout of sleep() fires; nothing can end it early.
TsSleepDone ==
  /\ lang = "ts"
  /\ pc = "wait"
  /\ pc' = "call"
  /\ attempt' = attempt + 1
  /\ UNCHANGED <<lang, fnKind, config, calls, sleeps, nDelay, delay, lastError,
                 ret, cancelled, ctxSeen, ctxAtCall, lastEv, lastOut, hist>>
  /\ UNCHANGED <<dvars, wvars, hvars, kvars, pvars>>

\* retryDo: fn(attempt) is called.
GoCall ==
  /\ lang = "go"
  /\ pc = "call"
  /\ loopContinues_go(attempt, config)
  /\ pc' = "infn"
  /\ calls' = calls + 1
  /\ ctxAtCall' = cancelled
  /\ UNCHANGED <<lang, fnKind, config, attempt, sleeps, nDelay, delay, lastError,
                 ret, cancelled, ctxSeen, lastEv, lastOut, hist>>
  /\ UNCHANGED <<dvars, wvars, hvars, kvars, pvars>>

\* retryDo: the loop ends without a return; `return nil, lastErr`.
GoFallThrough ==
  /\ lang = "go"
  /\ pc = "call"
  /\ ~loopContinues_go(attempt, config)
  /\ pc' = "done"
  /\ ret' = IF lastError # NoError THEN Failed(lastError) ELSE Returned(NoValue)
  /\ UNCHANGED <<lang, fnKind, config, attempt, calls, sleeps, nDelay, delay,
                 lastError, cancelled, ctxSeen, ctxAtCall, lastEv, lastOut, hist>>
  /\ UNCHANGED <<dvars, wvars, hvars, kvars, pvars>>

\* retryDo: fn(attempt) returns and the rest of the iteration runs, up to the
\* return, the select or the next iteration.  The http.Client is the caller's
\* (WithHTTPClient), so no outcome is excluded when ctx is already done.
GoReturn ==
  /\ lang = "go"
  /\ pc = "infn"
  /\ \E ev \in GoEvents :
       \E rnd \in 0 .. JitterRes - 1 :
         LET out == doRequest(ev, attempt)
         IN Apply(retryDo_body(out, attempt, config, cancelled, lastError, rnd),
                  ev, out, GoClass(out))
  /\ ctxSeen' = cancelled
  /\ UNCHANGED <<lang, fnKind, config, calls, cancelled, ctxAtCall>>
  /\ UNCHANGED <<dvars, wvars, hvars, kvars, pvars>>

\* retryDo: the select takes `case <-timer.C`.
GoTimerFires ==
  /\ lang = "go"
  /\ pc = "wait"
  /\ selectWait(cancelled) = "timer"
  /\ pc' = "call"
  /\ attempt' = attempt + 1
  /\ UNCHANGED <<lang, fnKind, config, calls, sleeps, nDelay, delay, lastError,
                 ret, cancelled, ctxSeen, ctxAtCall, lastEv, lastOut, hist>>
  /\ UNCHANGED <<dvars, wvars, hvars, kvars, pvars>>

\* retryDo: the select takes `case <-ctx.Done()`; `return nil, ctx.Err()`.
GoCtxDone ==
  /\ lang = "go"
  /\ pc = "wait"
  /\ selectWait(cancelled) = "ctx"
  /\ pc' = "done"
  /\ ret' = Failed(CtxErr)
  /\ UNCHANGED <<lang, fnKind, config, attempt, calls, sleeps, nDelay, delay,
                 lastError, cancelled, ctxSeen, ctxAtCall, lastEv, lastOut, hist>>
  /\ UNCHANGED <<dvars, wvars, hvars, kvars, pvars>>

RetryNext ==
  \/ Cancel
  \/ TsCall
  \/ TsFallThrough
  \/ TsReturn
  \/ TsSleepDone
  \/ GoCall
  \/ GoFallThrough
  \/ GoReturn
  \/ GoTimerFires
  \/ GoCtxDone

Spec == RetryInit /\ [][RetryNext]_vars

\* ----------------------------------------------- retry executor: accessors
\* maxRetries of the run's RetryConfig.
N == IF lang = "ts" THEN config.maxRetries ELSE config.MaxRetries
\* Number of attempts that have returned, and the index of the last of them.
Finished == Len(hist)
LastIndex == Len(hist) - 1
LastClass == hist[Len(hist)]
\* The retryable status set of the specification.
RetryableStatus(s) == s = 429 \/ (s >= 500 /\ s <= 599)
\* Every finished attempt was a retryable failure.
AllRetryable ==
  \A k \in 1 .. Len(hist) : hist[k] \in {"retryable", "transport"}
\* The error object of the last finished attempt (NoError if it has none).
LastFailure ==
  IF lang = "go" THEN lastOut.err
  ELSE IF lastOut.throws THEN lastOut.exc ELSE lastOut.result.error
\* The last finished attempt failed on an HTTP response carrying a status.
StatusFailure ==
  /\ hist # <<>>
  /\ lastEv.type = "response"
  /\ LastClass # "success"

\* ------------------------------------------------------------ claims C1-C7

\* C1: for maxRetries = N >= 0 the attempt operation is invoked at most N+1
\* times; exactly N+1 times if every attempt is a retryable failure and no
\* cancellation occurs; exactly once when N = 0, whatever the outcome.
C1_AttemptCount ==
  N >= 0 =>
    /\ calls <= N + 1
    /\ (pc = "done" /\ hist # <<>> /\ AllRetryable /\ ~cancelled) => calls = N + 1
    /\ (pc = "done" /\ hist # <<>> /\ N = 0) => calls = 1

\* C1 witness: a run of N+1 >= 3 attempts, all retryable failures, has ended.
C1_Witness ==
  /\ pc = "done"
  /\ N >= 2
  /\ AllRetryable
  /\ ~cancelled
  /\ calls = N + 1
  /\ Finished = N + 1

C3_SuccessReturns ==
  (hist # <<>> /\ LastClass = "success") =>
    /\ pc = "done"
    /\ ret = Returned(LastIndex + 1)
    /\ calls = Finished
    /\ nDelay = Finished - 1
    /\ sleeps <= Finished - 1
    /\ \A k \in 1 .. Len(hist) - 1 : hist[k] # "success"

\* C3 witness: a success at a later attempt ended the run while retries
\* remained.
C3_Witness ==
  /\ hist # <<>>
  /\ LastClass = "success"
  /\ Finished >= 2
  /\ Finished <= N
  /\ pc = "done"

C7_TransportFailure ==
  (lang = "go" /\ hist # <<>> /\ LastClass = "transport") =>
    /\ ctxSeen =>
         /\ pc = "done"
         /\ ret = Failed(lastOut.err)
         /\ calls = Finished
         /\ nDelay = Finished - 1
         /\ sleeps <= Finished - 1
    /\ (~ctxSeen /\ Finished <= N) =>
         /\ nDelay = Finished
         /\ pc = "done" => ret = Failed(CtxErr)
    /\ (~ctxSeen /\ Finished <= N /\ ~cancelled) => pc # "done"

\* C7 witness: a first transport failure was retried; the second one was
\* handled with ctx done and ended the run while retries remained.
C7_Witness ==
  /\ lang = "go"
  /\ Finished = 2
  /\ hist[1] = "transport"
  /\ LastClass = "transport"
  /\ ctxSeen
  /\ N >= 2
  /\ pc = "done"
  /\ ret = Failed(lastOut.err)

\* ------------------------------------------------------------- claim C11
\* The Retry-After header of the last response, in milliseconds.
HeaderMs == Get(lastEv.retryAfter)
\* The delay settings of the run's RetryConfig.
RunBackoff == IF lang = "ts" THEN config.backoff ELSE config.Backoff
RunBaseDelay ==
  IF lang = "ts" THEN OrDefault(config.baseDelayMs, DefaultBaseDelayMs)
  ELSE config.BaseDelay
RunMaxDelay ==
  IF lang = "ts" THEN OrDefault(config.maxDelayMs, DefaultMaxDelayMs)
  ELSE config.MaxDelay
\* The backoff before jitter for the attempt that finished last.
RunPreJitter ==
  IF RunBackoff = "linear" THEN RunBaseDelay * (LastIndex + 1)
  ELSE RunBaseDelay * Pow2(LastIndex)
\* The client's last attempt ended in a response that carries a Retry-After
\* header, and the executor computed the delay before the next attempt.
HintDelayed ==
  /\ fnKind = "request"
  /\ hist # <<>>
  /\ nDelay = Finished
  /\ lastEv.type = "response"
  /\ lastEv.bodyOk
  /\ lastEv.retryAfter # Undefined

DelayValuesMs == {0, 1, 2, 3, 1000, 40000}
MaxDelayValuesMs == {0, 2, 3, 1500, 30000, 60000}

\* RetryConfig of retry.ts: baseDelayMs and maxDelayMs are optional.
TsDelayConfigs ==
  [backoff : Backoffs,
   baseDelayMs : {Undefined} \cup {Some(v) : v \in DelayValuesMs \ {1000}},
   maxDelayMs : {Undefined} \cup {Some(v) : v \in MaxDelayValuesMs \ {30000}}]

\* RetryConfig of retry.go.
GoDelayConfigs ==
  [Backoff : Backoffs, BaseDelay : DelayValuesMs, MaxDelay : MaxDelayValuesMs]

\* retryAfterSeconds of AttemptResult: undefined, 0 s, 2 s, 40 s.
TsHints == {Undefined, Some(0), Some(2), Some(40)}

\* retryAfter of retryDo's fn: 0 (none), 500 ms, 2 s, 40 s.
GoHints == {0, 500, 2 * Second, 40 * Second}

DelayInit ==
  /\ PairIdle
  /\ KeyIdle
  /\ RetryIdle
  /\ WaitIdle
  /\ HookIdle
  /\ dLang \in {"ts", "go"}
  /\ dAttempt \in 0 .. MaxAttempt
  /\ dConfig \in IF dLang = "ts" THEN TsDelayConfigs ELSE GoDelayConfigs
  /\ dHint \in IF dLang = "ts" THEN TsHints ELSE GoHints
  /\ dRnd \in 0 .. JitterRes - 1
  /\ dOut = Undefined

\* One call of calculateDelay on the drawn arguments.
DelayCompute ==
  /\ dOut = Undefined
  /\ dOut' = Some(IF dLang = "ts"
                  THEN calculateDelay(dAttempt, dConfig, dHint, dRnd)
                  ELSE calculateDelay_go(dAttempt, dConfig, dHint, dRnd))
  /\ UNCHANGED <<dLang, dAttempt, dConfig, dHint, dRnd>>
  /\ UNCHANGED <<rvars, wvars, hvars, kvars, pvars>>

DelayNext == DelayCompute

SpecDelay == DelayInit /\ [][DelayNext]_vars

\* ------------------------------------------- delay calculator: accessors
dBackoff == IF dLang = "ts" THEN dConfig.backoff ELSE dConfig.Backoff
dBaseDelay ==
  IF dLang = "ts" THEN OrDefault(dConfig.baseDelayMs, DefaultBaseDelayMs)
  ELSE dConfig.BaseDelay
dMaxDelay ==
  IF dLang = "ts" THEN OrDefault(dConfig.maxDelayMs, DefaultMaxDelayMs)
  ELSE dConfig.MaxDelay
\* The server hint in milliseconds, 0 when there is none.
dHintMs == IF dLang = "ts" THEN OrDefault(dHint, 0) * 1000 ELSE dHint
\* The mathematical pre-jitter delay D of the claim.
dD ==
  IF dBackoff = "linear" THEN dBaseDelay * (dAttempt + 1)
  ELSE dBaseDelay * Pow2(dAttempt)
\* Whether the call carries no server hint at all.
dNoHint == IF dLang = "ts" THEN dHint = Undefined ELSE dHint = 0
\* The call's pre-jitter delay as the implementation computes it.
dPreJitter ==
  IF dLang = "ts" THEN preJitter(dAttempt, dBackoff, dBaseDelay)
  ELSE preJitter_go(dAttempt, dBackoff, dBaseDelay)
\* calculateDelay of the implementation under evaluation, for another draw.
dCalc(r) ==
  IF dLang = "ts" THEN calculateDelay(dAttempt, dConfig, dHint, r)
  ELSE calculateDelay_go(dAttempt, dConfig, dHint, r)

DefaultTsConfig(b) == [backoff |-> b, baseDelayMs |-> Undefined, maxDelayMs |-> Undefined]
DefaultGoConfig(b) == [Backoff |-> b, BaseDelay |-> Second, MaxDelay |-> 30 * Second]

\* ------------------------------------------------------------- claims C8-C10

C9_Examples ==
  \A i \in 0 .. 3 :
    /\ preJitter(i, "exponential", 1000) = <<1000, 2000, 4000, 8000>>[i + 1]
    /\ preJitter(i, "linear", 1000) = <<1000, 2000, 3000, 4000>>[i + 1]
    /\ preJitter_go(i, "exponential", Second) = <<1, 2, 4, 8>>[i + 1] * Second
    /\ preJitter_go(i, "linear", Second) = <<1, 2, 3, 4>>[i + 1] * Second

C10_HintUsedVerbatim ==
  /\ \A b \in Backoffs, i \in 0 .. MaxAttempt, r \in 0 .. JitterRes - 1 :
       /\ calculateDelay(i, DefaultTsConfig(b), Some(2), r) = 2000
       /\ calculateDelay(i, DefaultTsConfig(b), Some(40), r) = 30000
       /\ calculateDelay_go(i, DefaultGoConfig(b), 2 * Second, r) = 2 * Second
       /\ calculateDelay_go(i, DefaultGoConfig(b), 40 * Second, r) = 30 * Second
  /\ (dOut # Undefined /\ dHintMs > 0) =>
       /\ Get(dOut) = Min(dHintMs, dMaxDelay)
       /\ \A r \in 0 .. JitterRes - 1 : dCalc(r) = Get(dOut)

\* C10 witness: a positive hint below maxDelay returned verbatim under a
\* jittering policy with a non-zero draw, at a later attempt index.
C10_Witness ==
  /\ dOut # Undefined
  /\ dHintMs > 0
  /\ dHintMs < dMaxDelay
  /\ dBackoff # "none"
  /\ dBaseDelay > 0
  /\ dAttempt > 0
  /\ dRnd > 0
  /\ Get(dOut) = dHintMs

\* ============================================================ polling waiter
\* The options a caller can pass, in ms.
TsWaitOptions ==
  [pollIntervalMs : {Undefined, Some(0), Some(1), Some(2)},
   timeoutMs : {Undefined, Some(-1), Some(0), Some(1), Some(2), Some(4)}]
\* A nil *WaitOptions is the record of zero values.
GoWaitOptions ==
  [PollInterval : {0, 1, 2}, Timeout : {-1, 0, 1, 2, 4}]

\* The waiter's locals pollInterval and timeout.
wPollInterval ==
  IF wLang = "ts" THEN pollIntervalOf(wOptions) ELSE pollIntervalOf_go(wOptions)
wTimeout ==
  IF wLang = "ts" THEN timeoutOf(wOptions) ELSE timeoutOf_go(wOptions)
\* ctx.Done() of the ctx derived by context.WithTimeout is closed.
wCtxDone == wCancelled \/ wNow >= wDeadline

\* What a status fetch can hand back: a status, or its own failure; in Go
\* also a failure caused by its ctx being done by the time it ends.
FetchOutcomes(ctxDone) ==
  {Fetched(st) : st \in TaskStatuses}
  \cup {FetchFailed(FetchError)}
  \cup (IF ctxDone THEN {FetchFailed(FetchCtxError)} ELSE {})

WaitInit ==
  /\ PairIdle
  /\ KeyIdle
  /\ RetryIdle
  /\ DelayIdle
  /\ HookIdle
  /\ wLang \in {"ts", "go"}
  /\ wOptions \in IF wLang = "ts" THEN TsWaitOptions ELSE GoWaitOptions
  /\ wPc = IF wLang = "ts" THEN "head" ELSE "first"
  /\ wNow = 0
  /\ wDeadline = wTimeout
  /\ wChecks = 0
  /\ wSleeps = 0
  /\ wWake = 0
  /\ wTick = FALSE
  /\ wCancelled = FALSE
  /\ wCancelPc = "none"
  /\ wRet = WaitPending
  /\ wLast = NoFetch
  /\ wLastStart = 0
  /\ wLastReturn = 0
  /\ wPrevReturn = 0

\* The caller cancels the ctx it passed to WaitForCompletion.
\* waitForCompletion takes no cancellation signal.
WaitCancel ==
  /\ wLang = "go"
  /\ wPc # "done"
  /\ ~wCancelled
  /\ wCancelled' = TRUE
  /\ wCancelPc' = wPc
  /\ UNCHANGED <<wLang, wOptions, wPc, wNow, wDeadline, wChecks, wSleeps, wWake,
                 wTick, wRet, wLast, wLastStart, wLastReturn, wPrevReturn>>
  /\ UNCHANGED <<rvars, dvars, hvars, kvars, pvars>>

\* A status fetch is started.
StartCheck ==
  /\ wChecks < MaxChecks
  /\ wPc' = "check"
  /\ wChecks' = wChecks + 1
  /\ wLastStart' = wNow
  /\ wPrevReturn' = wLastReturn

\* waitForCompletion: `Date.now() < deadline` holds; `await this.get(taskId)`.
WaitTsCheck ==
  /\ wLang = "ts"
  /\ wPc = "head"
  /\ wNow < wDeadline
  /\ StartCheck
  /\ UNCHANGED <<wLang, wOptions, wNow, wDeadline, wSleeps, wWake, wTick,
                 wCancelled, wCancelPc, wRet, wLast, wLastReturn>>
  /\ UNCHANGED <<rvars, dvars, hvars, kvars, pvars>>

\* waitForCompletion: the loop test fails; the trailing throw.
WaitTsDeadline ==
  /\ wLang = "ts"
  /\ wPc = "head"
  /\ ~(wNow < wDeadline)
  /\ wPc' = "done"
  /\ wRet' = WaitFailed(TimeoutError(wTimeout))
  /\ UNCHANGED <<wLang, wOptions, wNow, wDeadline, wChecks, wSleeps, wWake, wTick,
                 wCancelled, wCancelPc, wLast, wLastStart, wLastReturn,
                 wPrevReturn>>
  /\ UNCHANGED <<rvars, dvars, hvars, kvars, pvars>>

\* waitForCompletion: the fetch settles after d ms and the rest of the
\* iteration runs, up to the return, the throw or the setTimeout.
WaitTsFetched ==
  /\ wLang = "ts"
  /\ wPc = "check"
  /\ \E d \in 0 .. MaxCheckTime :
       \E fetched \in FetchOutcomes(FALSE) :
         LET st == waitForCompletion_body(fetched, wNow + d, wDeadline,
                                          wPollInterval, wTimeout)
         IN /\ wNow' = wNow + d
            /\ wLastReturn' = wNow + d
            /\ wLast' = fetched
            /\ wPc' = st.next
            /\ wRet' = st.ret
            /\ wWake' = IF st.next = "sleep" THEN st.wake ELSE wWake
            /\ wSleeps' = IF st.next = "sleep" THEN wSleeps + 1 ELSE wSleeps
  /\ UNCHANGED <<wLang, wOptions, wDeadline, wChecks, wTick, wCancelled,
                 wCancelPc, wLastStart, wPrevReturn>>
  /\ UNCHANGED <<rvars, dvars, hvars, kvars, pvars>>

\* waitForCompletion: the setTimeout fires, when due or a little later.
WaitTsWake ==
  /\ wLang = "ts"
  /\ wPc = "sleep"
  /\ \E late \in 0 .. MaxLate : wNow' = wWake + late
  /\ wPc' = "head"
  /\ UNCHANGED <<wLang, wOptions, wDeadline, wChecks, wSleeps, wWake, wTick,
                 wCancelled, wCancelPc, wRet, wLast, wLastStart, wLastReturn,
                 wPrevReturn>>
  /\ UNCHANGED <<rvars, dvars, hvars, kvars, pvars>>

\* WaitForCompletion: the immediate first GetTask.
WaitGoFirst ==
  /\ wLang = "go"
  /\ wPc = "first"
  /\ StartCheck
  /\ UNCHANGED <<wLang, wOptions, wNow, wDeadline, wSleeps, wWake, wTick,
                 wCancelled, wCancelPc, wRet, wLast, wLastReturn>>
  /\ UNCHANGED <<rvars, dvars, hvars, kvars, pvars>>

\* WaitForCompletion: GetTask returns after d ms, during which the ticker
\* may have ticked; the error and status tests follow.
WaitGoFetched ==
  /\ wLang = "go"
  /\ wPc = "check"
  /\ \E d \in 0 .. MaxCheckTime :
       \E fetched \in FetchOutcomes(wCancelled \/ wNow + d >= wDeadline) :
         LET st == WaitForCompletion_check(fetched)
         IN /\ wNow' = wNow + d
            /\ wLastReturn' = wNow + d
            /\ wTick' = (wTick \/ tickBetween(wNow, wNow + d, wPollInterval))
            /\ wLast' = fetched
            /\ wPc' = st.next
            /\ wRet' = st.ret
  /\ UNCHANGED <<wLang, wOptions, wDeadline, wChecks, wSleeps, wWake, wCancelled,
                 wCancelPc, wLastStart, wPrevReturn>>
  /\ UNCHANGED <<rvars, dvars, hvars, kvars, pvars>>

\* WaitForCompletion: no case of the select is ready; the goroutine blocks.
WaitGoPark ==
  /\ wLang = "go"
  /\ wPc = "select"
  /\ ~wTick
  /\ ~wCtxDone
  /\ wPc' = "parked"
  /\ wSleeps' = wSleeps + 1
  /\ UNCHANGED <<wLang, wOptions, wNow, wDeadline, wChecks, wWake, wTick,
                 wCancelled, wCancelPc, wRet, wLast, wLastStart, wLastReturn,
                 wPrevReturn>>
  /\ UNCHANGED <<rvars, dvars, hvars, kvars, pvars>>

\* WaitForCompletion: the goroutine stays blocked until the next tick or the
\* deadline, whichever comes first.
WaitGoTime ==
  /\ wLang = "go"
  /\ wPc = "parked"
  /\ ~wTick
  /\ ~wCtxDone
  /\ LET next == Min(nextTick(wNow, wPollInterval), wDeadline)
     IN /\ wNow' = next
        /\ wTick' = tickBetween(wNow, next, wPollInterval)
  /\ UNCHANGED <<wLang, wOptions, wPc, wDeadline, wChecks, wSleeps, wWake,
                 wCancelled, wCancelPc, wRet, wLast, wLastStart, wLastReturn,
                 wPrevReturn>>
  /\ UNCHANGED <<rvars, dvars, hvars, kvars, pvars>>

\* WaitForCompletion: the select takes `case <-ticker.C`; GetTask is called.
\* With both cases ready the Go runtime picks either.
WaitGoTick ==
  /\ wLang = "go"
  /\ wPc \in {"select", "parked"}
  /\ wTick
  /\ wTick' = FALSE
  /\ StartCheck
  /\ UNCHANGED <<wLang, wOptions, wNow, wDeadline, wSleeps, wWake, wCancelled,
                 wCancelPc, wRet, wLast, wLastReturn>>
  /\ UNCHANGED <<rvars, dvars, hvars, kvars, pvars>>

\* WaitForCompletion: the select takes `case <-ctx.Done()`.
WaitGoCtxDone ==
  /\ wLang = "go"
  /\ wPc \in {"select", "parked"}
  /\ wCtxDone
  /\ wPc' = "done"
  /\ wRet' = WaitFailed(TimeoutError(wTimeout))
  /\ UNCHANGED <<wLang, wOptions, wNow, wDeadline, wChecks, wSleeps, wWake, wTick,
                 wCancelled, wCancelPc, wLast, wLastStart, wLastReturn,
                 wPrevReturn>>
  /\ UNCHANGED <<rvars, dvars, hvars, kvars, pvars>>

WaitNext ==
  \/ WaitCancel
  \/ WaitTsCheck
  \/ WaitTsDeadline
  \/ WaitTsFetched
  \/ WaitTsWake
  \/ WaitGoFirst
  \/ WaitGoFetched
  \/ WaitGoPark
  \/ WaitGoTime
  \/ WaitGoTick
  \/ WaitGoCtxDone

SpecWait == WaitInit /\ [][WaitNext]_vars

\* ------------------------------------------------- polling waiter: claims
\* The terminal status set of the specification.
TerminalSet == {"verified", "failed", "cancelled", "expired"}
\* The waiter has returned the timeout failure.
TimedOut == wRet.kind = "error" /\ wRet.err.kind = "timeout"
\* The last finished fetch delivered a status, and it is not terminal.
LastNonTerminal == wLast.err = NoWaitErr /\ wLast.status \notin TerminalSet

\* C12: the first status check starts at the call, before any sleep, and
\* when it fetches a terminal status the waiter returns that entity after
\* exactly one check and no sleep.
C12_FirstCheckImmediate ==
  /\ wChecks = 0 => wSleeps = 0
  /\ wChecks = 1 => wLastStart = 0
  /\ (wChecks = 1 /\ wPc # "check" /\ wLast.status \in TerminalSet) =>
       /\ wPc = "done"
       /\ wRet = WaitReturned(wLast.status)
       /\ wSleeps = 0

\* C12 witness: the first GetTask took a while and fetched "expired".
C12_Witness ==
  /\ wLang = "go"
  /\ wChecks = 1
  /\ wNow > 0
  /\ wSleeps = 0
  /\ wRet = WaitReturned("expired")

\* C13: the waiter ends in the timeout failure exactly when its deadline has
\* elapsed without a terminal status: a finished wait whose deadline passed
\* with no terminal status seen and no failure of the fetch itself ends in
\* the timeout error, and the timeout error is only returned then.
C13_TimeoutIff ==
  wPc = "done" =>
    /\ TimedOut => (wNow >= wDeadline /\ wLast.status \notin TerminalSet)
    /\ (wNow >= wDeadline /\ wLast.status \notin TerminalSet
        /\ wLast.err # FetchError) => TimedOut

\* C14: no status check is started once the deadline has been reached.
C14_NoCheckAfterDeadline ==
  wChecks >= 1 => wLastStart < wDeadline

C16_Original ==
  (TimedOut /\ LastNonTerminal) =>
    /\ wRet.err.timeout = wNow
    /\ "status" \in DOMAIN wRet.err
    /\ wRet.err.status = wLast.status

\* C16 amended: the timeout failure carries the timeout the waiter was
\* configured with (the option when given, positive in Go, else 10 minutes)
\* and nothing else: neither the elapsed time nor a status.
C16_Amended ==
  TimedOut =>
    /\ wRet.err.timeout =
         IF wLang = "ts"
         THEN (IF wOptions.timeoutMs = Undefined THEN 10 * Minute
               ELSE Get(wOptions.timeoutMs))
         ELSE (IF wOptions.Timeout > 0 THEN wOptions.Timeout ELSE 10 * Minute)
    /\ DOMAIN wRet.err = {"kind", "timeout"}

\* C16 witness: a wait of 2 ms timed out after more than 2 ms, the last
\* status seen being "assigned".
C16_Witness ==
  /\ TimedOut
  /\ wLang = "ts"
  /\ wRet.err.timeout = 2
  /\ wNow > 2
  /\ wLast.status = "assigned"

\* C17: a failed status fetch ends the wait at once with that failure; no
\* fetch and no sleep follows it.
C17_FetchFailureStops ==
  wLast.err # NoWaitErr =>
    /\ wPc = "done"
    /\ wRet = WaitFailed(wLast.err)
    /\ wNow = wLastReturn
    /\ wLastStart <= wLastReturn

\* C17 witness: the second check of a TypeScript wait failed, after a sleep.
C17_Witness ==
  /\ wLang = "ts"
  /\ wChecks = 2
  /\ wSleeps = 1
  /\ wLast.err = FetchError
  /\ wRet = WaitFailed(FetchError)

\* C18: an entity is only returned with a status in {verified, failed,
\* cancelled, expired}; a wait whose last fetch saw any other status has
\* not ended successfully.
C18_OnlyTerminalReturned ==
  /\ wRet.kind = "value" => wRet.status \in TerminalSet
  /\ (wPc = "done" /\ LastNonTerminal) => wRet.kind = "error"

\* C18 witness: the wait ended on a status outside the terminal set by the
\* timeout error, after a status string the SDK does not know.
C18_Witness ==
  /\ wPc = "done"
  /\ wLast = Fetched("archived")
  /\ wChecks >= 2
  /\ wRet.kind = "error"

\* C19: when the caller's cancellation arrives while WaitForCompletion is
\* blocked between checks, before the deadline, the waiter returns an error
\* that is not the timeout error.
C19_CancelIsNotTimeout ==
  (wLang = "go" /\ wPc = "done" /\ wCancelPc = "parked" /\ wNow < wDeadline) =>
    (wRet.kind = "error" /\ wRet.err.kind # "timeout")

\* ======================================================= webhook signatures
\* Arguments of construct and verify: payloads and secrets (the empty string
\* among them), timestamps and clock readings in seconds.
HookPayloads == {EmptyString, <<"a">>, <<"a", "b">>}
HookSecrets == {EmptyString, <<"a">>, <<"b">>}
HookTimestamps == {-5, 0, 5, 1000}
HookTimes ==
  {0, 5, 300, 301, 305, 306, 500, 505, 699, 700, 1000, 1100, 1300, 1301, 1500}

HookInit ==
  /\ PairIdle
  /\ KeyIdle
  /\ RetryIdle
  /\ DelayIdle
  /\ WaitIdle
  /\ hLang \in {"ts", "go"}
  /\ hPayload \in HookPayloads
  /\ hSecret \in HookSecrets
  /\ hTimestamp \in IF hLang = "ts"
                    THEN {Undefined} \cup {Some(t) : t \in HookTimestamps}
                    ELSE HookTimestamps
  /\ hTolerance \in IF hLang = "ts"
                    THEN {Undefined, Some(0), Some(DefaultToleranceSeconds)}
                    ELSE {0, DefaultToleranceSeconds * Second}
  /\ hNow \in HookTimes
  /\ hNowC \in {t \in {0, 1000, hNow} : t <= hNow}
  /\ hHeader = Undefined
  /\ hVerdict = Undefined
  /\ hRewrite = "none"
  /\ hRaised = FALSE
  /\ hPayload2 = EmptyString
  /\ hSecret2 = EmptyString
  /\ hVerdict2 = Undefined

\* The signature header is constructed, at clock reading hNowC.
HookConstruct ==
  /\ hHeader = Undefined
  /\ hHeader' =
       Some(IF hLang = "ts"
            THEN constructWebhookSignature(hPayload, hSecret, hTimestamp, hNowC)
            ELSE ConstructWebhookSignature(hPayload, hSecret, hTimestamp, hNowC))
  /\ UNCHANGED <<hLang, hPayload, hSecret, hTimestamp, hTolerance, hNowC, hNow,
                 hVerdict, hRewrite, hRaised, hPayload2, hSecret2, hVerdict2>>
  /\ UNCHANGED <<rvars, dvars, wvars, kvars, pvars>>

\* What one call of verify hands back: Some(verdict), or Undefined when the
\* call ends in an exception.
verifyOutcome(payload, signature, secret) ==
  IF hLang = "ts"
  THEN verifyWebhookSignature(payload, signature, secret, hTolerance, hNow)
  ELSE Some(VerifyWebhookSignature(payload, signature, secret, hTolerance, hNow))

\* The header is verified, at clock reading hNow, with the payload and the
\* secret it was constructed for.
HookVerify ==
  /\ hHeader # Undefined
  /\ hVerdict = Undefined
  /\ ~hRaised
  /\ LET out == verifyOutcome(hPayload, Get(hHeader), hSecret)
     IN /\ hVerdict' = out
        /\ hRaised' = (out = Undefined)
  /\ UNCHANGED <<hLang, hPayload, hSecret, hTimestamp, hTolerance, hNowC, hNow,
                 hHeader, hRewrite, hPayload2, hSecret2, hVerdict2>>
  /\ UNCHANGED <<rvars, dvars, wvars, kvars, pvars>>

HookNext ==
  \/ HookConstruct
  \/ HookVerify

SpecHook == HookInit /\ [][HookNext]_vars

\* ---------------------------------------------- webhook signatures: claims
\* verify was called with a tolerance of 300 seconds.
Tolerance300 ==
  IF hLang = "ts" THEN OrDefault(hTolerance, 300) = 300
  ELSE hTolerance = 300 * Second
\* construct was given the timestamp t.
GivenTimestamp(t) ==
  IF hLang = "ts" THEN hTimestamp = Some(t) ELSE hTimestamp = t
\* verify has returned its verdict on a header construct made for a
\* non-empty payload and secret, checked with tolerance 300.
RoundTrip300 ==
  /\ hVerdict # Undefined
  /\ hPayload # EmptyString
  /\ hSecret # EmptyString
  /\ Tolerance300

\* C20 as stated: for every timestamp t given to construct, verify with
\* tolerance 300 at time now returns true when |now - t| <= 300 and false
\* when |now - t| is 301 (or 500, as in the example).
C20_Original ==
  \A t \in HookTimestamps :
    (RoundTrip300 /\ GivenTimestamp(t)) =>
      /\ Abs(hNow - t) <= 300 => hVerdict = Some(TRUE)
      /\ Abs(hNow - t) \in {301, 500} => hVerdict = Some(FALSE)

\* C20 amended: the same for every timestamp t, except t = 0 in Go, which
\* ConstructWebhookSignature replaces by the time of construction: that
\* header verifies exactly when it is at most 300 seconds old.
C20_Amended ==
  /\ \A t \in HookTimestamps :
       (RoundTrip300 /\ GivenTimestamp(t) /\ ~(hLang = "go" /\ t = 0)) =>
         /\ Abs(hNow - t) <= 300 => hVerdict = Some(TRUE)
         /\ Abs(hNow - t) \in {301, 500} => hVerdict = Some(FALSE)
  /\ (RoundTrip300 /\ hLang = "go" /\ hTimestamp = 0) =>
       hVerdict = Some(Abs(hNow - hNowC) <= 300)

\* C20 witness: a header for t = 1000 was verified at 1300, the edge of the
\* tolerance, and accepted.
C20_Witness ==
  /\ RoundTrip300
  /\ GivenTimestamp(1000)
  /\ hNow = 1300
  /\ hVerdict = Some(TRUE)

\* verify was called with a tolerance of 0.
ToleranceZero ==
  IF hLang = "ts" THEN hTolerance = Some(0) ELSE hTolerance = 0

\* C22: with tolerance 0 the freshness check is off: the header construct
\* made for a non-empty payload and secret verifies as true however far its
\* timestamp is from the time of verification, in TypeScript and in Go.
C22_ZeroToleranceDisables ==
  (/\ hVerdict # Undefined
   /\ hRewrite = "none"
   /\ ToleranceZero
   /\ hPayload # EmptyString
   /\ hSecret # EmptyString) =>
    hVerdict = Some(TRUE)

\* ============================================ webhook signatures on the wire
\* The header that reaches verify need not be the one construct returned: a
\* sender may format it differently, and it may be altered on the way.  One
\* such departure is applied to the constructed header before verification.

\* The t value and the v1 value of a header made by construct, which has
\* the t= segment first and the v1= segment second.
tValue(header) == slice(split(header, ",")[1], 2)
v1Value(header) == slice(split(header, ",")[2], 3)

\* s with its hex letters in upper case.
upperCase(s) ==
  [i \in 1 .. Len(s) |->
     IF IndexOf(s[i], HexDigits) > 0 THEN UpperHexDigits[IndexOf(s[i], HexDigits)]
     ELSE s[i]]

\* The header t=<t>,v1=<v1>.
headerOf(t, v1) == TPrefix \o t \o Comma \o V1Prefix \o v1

\* Headers that are not of the form t=<integer>,v1=<hex string>.
MalformedRewrites ==
  {"no-t", "no-v1", "empty-t", "empty-v1", "t-word", "t-trailing", "v1-word",
   "v1-trailing"}
\* Headers whose v1 value is the digest with characters added or removed, or
\* in upper case.
DigestRewrites ==
  {"v1-extra-digit", "v1-extra-byte", "v1-short-digit", "v1-short-byte",
   "v1-upper"}
\* Headers with the segments in another order or with further segments.
SegmentRewrites == {"swap", "unknown-first", "unknown-last", "swap-unknown"}
\* Headers with a second t= or v1= segment after the constructed ones, or
\* before them.
RepeatRewrites == {"t-again", "v1-again", "t-before", "v1-before"}
HeaderRewrites ==
  MalformedRewrites \cup DigestRewrites \cup SegmentRewrites
    \cup RepeatRewrites \cup {"empty"}

\* The header on the wire for one departure from construct's header; payload
\* and secret are the sender's, who signs the t value it sends.
rewrite(kind, header, payload, secret) ==
  LET t == tValue(header)
      v1 == v1Value(header)
      word == <<"x">>
      junk == <<"x", "x">>
      unknown == <<"v", "0", "=", "a", "b">>
      signed(tv) == HmacHex(secret, tv \o Dot \o payload)
  IN CASE kind = "no-t" -> V1Prefix \o v1
       [] kind = "no-v1" -> TPrefix \o t
       [] kind = "empty-t" -> headerOf(EmptyString, v1)
       [] kind = "empty-v1" -> headerOf(t, EmptyString)
       [] kind = "t-word" -> headerOf(word, signed(word))
       [] kind = "t-trailing" -> headerOf(t \o word, signed(t \o word))
       [] kind = "v1-word" -> headerOf(t, junk)
       [] kind = "v1-trailing" -> headerOf(t, v1 \o junk)
       [] kind = "v1-extra-digit" -> headerOf(t, v1 \o <<"0">>)
       [] kind = "v1-extra-byte" -> headerOf(t, v1 \o <<"0", "0">>)
       [] kind = "v1-short-digit" -> headerOf(t, SubSeq(v1, 1, Len(v1) - 1))
       [] kind = "v1-short-byte" -> headerOf(t, SubSeq(v1, 1, Len(v1) - 2))
       [] kind = "v1-upper" -> headerOf(t, upperCase(v1))
       [] kind = "swap" -> V1Prefix \o v1 \o Comma \o TPrefix \o t
       [] kind = "unknown-first" -> unknown \o Comma \o header
       [] kind = "unknown-last" -> header \o Comma \o unknown
       [] kind = "swap-unknown" ->
            V1Prefix \o v1 \o Comma \o unknown \o Comma \o TPrefix \o t
       [] kind = "t-again" -> header \o Comma \o TPrefix \o <<"5">>
       [] kind = "v1-again" -> header \o Comma \o V1Prefix \o junk
       [] kind = "t-before" -> TPrefix \o <<"5">> \o Comma \o header
       [] kind = "v1-before" -> V1Prefix \o junk \o Comma \o header
       [] kind = "empty" -> EmptyString

\* Clock readings and the timestamp of the runs with a header on the wire.
WireTimestamp == 1000
WireTimes == {1000, 1100, 1500}

WireInit ==
  /\ PairIdle
  /\ KeyIdle
  /\ RetryIdle
  /\ DelayIdle
  /\ WaitIdle
  /\ hLang \in {"ts", "go"}
  /\ hPayload \in HookPayloads
  /\ hSecret \in HookSecrets
  /\ hTimestamp = IF hLang = "ts" THEN Some(WireTimestamp) ELSE WireTimestamp
  /\ hTolerance \in IF hLang = "ts"
                    THEN {Undefined, Some(0), Some(DefaultToleranceSeconds)}
                    ELSE {0, DefaultToleranceSeconds * Second}
  /\ hNow \in WireTimes
  /\ hNowC = WireTimestamp
  /\ hHeader = Undefined
  /\ hVerdict = Undefined
  /\ hRewrite = "none"
  /\ hRaised = FALSE
  /\ hPayload2 = EmptyString
  /\ hSecret2 = EmptyString
  /\ hVerdict2 = Undefined

\* The header departs from the constructed one before it is verified.
HookRewrite ==
  /\ hHeader # Undefined
  /\ hRewrite = "none"
  /\ hVerdict = Undefined
  /\ ~hRaised
  /\ \E kind \in HeaderRewrites :
       /\ hRewrite' = kind
       /\ hHeader' = Some(rewrite(kind, Get(hHeader), hPayload, hSecret))
  /\ UNCHANGED <<hLang, hPayload, hSecret, hTimestamp, hTolerance, hNowC, hNow,
                 hVerdict, hRaised, hPayload2, hSecret2, hVerdict2>>
  /\ UNCHANGED <<rvars, dvars, wvars, kvars, pvars>>

\* The same header is verified a second time, with another payload or
\* another secret.
HookVerifyOther ==
  /\ hVerdict # Undefined
  /\ hVerdict2 = Undefined
  /\ ~hRaised
  /\ \E payload \in HookPayloads, secret \in HookSecrets :
       /\ <<payload, secret>> # <<hPayload, hSecret>>
       /\ LET out == verifyOutcome(payload, Get(hHeader), secret)
          IN /\ hVerdict2' = out
             /\ hRaised' = (out = Undefined)
       /\ hPayload2' = payload
       /\ hSecret2' = secret
  /\ UNCHANGED <<hLang, hPayload, hSecret, hTimestamp, hTolerance, hNowC, hNow,
                 hHeader, hVerdict, hRewrite>>
  /\ UNCHANGED <<rvars, dvars, wvars, kvars, pvars>>

WireNext ==
  \/ HookConstruct
  \/ HookRewrite
  \/ HookVerify
  \/ HookVerifyOther

SpecWire == WireInit /\ [][WireNext]_vars

\* ------------------------------------ webhook signatures on the wire: claims
\* verify has handed back a verdict, or ended in an exception.
Verified == hVerdict # Undefined \/ hRaised

\* C21: on a header that lacks the t= segment or the v1= segment, whose t
\* value is not a well-formed integer or whose v1 value is not a hex string,
\* verify returns false and does not raise, whatever the payload, the secret
\* and the tolerance are.
C21_FailsClosed ==
  (Verified /\ hRewrite \in MalformedRewrites) =>
    /\ ~hRaised
    /\ hVerdict = Some(FALSE)

\* The t value and the v1 value of the header on the wire, and the digest of
\* the payload and the secret given to verify over that t value.
WireT == slice(Get(find(split(Get(hHeader), ","), TPrefix)), 2)
WireV1 == slice(Get(find(split(Get(hHeader), ","), V1Prefix)), 3)
WireDigest == HmacHex(hSecret, WireT \o Dot \o hPayload)

\* C23 (on headers with one t= and one v1= segment):
\* verify returns true only if the header's v1 value is exactly the hex
\* encoding, in any letter case, of HMAC(secret, "<t>.<payload>"): as many
\* characters as the digest has, none added and none missing.
C23_ExactDigest ==
  (hVerdict = Some(TRUE) /\ hRewrite \notin RepeatRewrites) =>
    /\ Len(WireV1) = Len(WireDigest)
    /\ upperCase(WireV1) = upperCase(WireDigest)

\* C24: one header does not verify for two payloads or for two secrets: when
\* it verifies as true for a payload and a secret, verifying the same header
\* with another payload or another secret returns false.
C24_OneHeaderOnePair ==
  (hVerdict = Some(TRUE) /\ hVerdict2 # Undefined) =>
    /\ <<hPayload2, hSecret2>> # <<hPayload, hSecret>>
    /\ hVerdict2 = Some(FALSE)

\* C24 witness: a header that verified as true was verified again with the
\* same payload and another non-empty secret, and rejected.
C24_Witness ==
  /\ hVerdict = Some(TRUE)
  /\ hVerdict2 = Some(FALSE)
  /\ hPayload2 = hPayload
  /\ hSecret2 # hSecret
  /\ hSecret2 # EmptyString

\* C25: verify returns false whenever its payload, its header or its secret
\* is empty, whatever the other arguments are, the header that construct
\* made for that empty payload or empty secret included.
C25_EmptyArgumentRejected ==
  /\ (/\ Verified
      /\ \/ hPayload = EmptyString
         \/ hSecret = EmptyString
         \/ hHeader = Some(EmptyString)) =>
       /\ ~hRaised
       /\ hVerdict = Some(FALSE)
  /\ (/\ hVerdict2 # Undefined
      /\ (hPayload2 = EmptyString \/ hSecret2 = EmptyString)) =>
       hVerdict2 = Some(FALSE)

\* C25 witness: the header constructed for an empty payload, unaltered and
\* fresh, was verified with that empty payload and rejected.
C25_Witness ==
  /\ hPayload = EmptyString
  /\ hSecret # EmptyString
  /\ hRewrite = "none"
  /\ hNow = WireTimestamp
  /\ hVerdict = Some(FALSE)

\* The header construct returned, before any departure from it.
Constructed ==
  IF hLang = "ts"
  THEN constructWebhookSignature(hPayload, hSecret, hTimestamp, hNowC)
  ELSE ConstructWebhookSignature(hPayload, hSecret, hTimestamp, hNowC)

\* C26: the verdict depends neither on the order of the header's segments
\* nor on segments with unknown keys: with the t= and v1= segments swapped,
\* or with such segments added, verify returns what it returns on the header
\* as constructed: true when that header is verified in the second it was
\* made for, with the non-empty payload and secret it was made for.
C26_OrderAndUnknownKeys ==
  (Verified /\ hRewrite \in SegmentRewrites) =>
    /\ ~hRaised
    /\ hVerdict = verifyOutcome(hPayload, Constructed, hSecret)
    /\ (/\ hPayload # EmptyString
        /\ hSecret # EmptyString
        /\ hNow = WireTimestamp) => hVerdict = Some(TRUE)

\* C26 witness: a header with v1= first, an unknown segment in the middle
\* and t= last was accepted.
C26_Witness ==
  /\ hRewrite = "swap-unknown"
  /\ hVerdict = Some(TRUE)

\* ========================================================= idempotency keys
\* Two calls of the helper with one namespace and two lists of parts.
MaxParts == 2
KeyNamespaces == {<<"a">>, <<"b">>}
KeyPartStrings == {EmptyString, <<"a">>, <<"b">>, <<"a", ":", "b">>}
RECURSIVE PartsLists(_)
PartsLists(n) ==
  IF n = 0 THEN {<<>>}
  ELSE PartsLists(n - 1)
         \cup {Append(l, x) : l \in {m \in PartsLists(n - 1) : Len(m) = n - 1},
                              x \in KeyPartStrings}

KeyInit ==
  /\ PairIdle
  /\ RetryIdle
  /\ DelayIdle
  /\ WaitIdle
  /\ HookIdle
  /\ kLang \in {"ts", "go"}
  /\ kNamespace \in KeyNamespaces
  /\ kPartsA \in PartsLists(MaxParts)
  /\ kPartsB \in PartsLists(MaxParts)
  /\ kKeyA = Undefined
  /\ kKeyB = Undefined

keyOf(parts) ==
  IF kLang = "ts" THEN generateIdempotencyKey(kNamespace, parts)
  ELSE GenerateIdempotencyKey(kNamespace, parts)

\* The first call.
KeyGenerateA ==
  /\ kKeyA = Undefined
  /\ kKeyA' = Some(keyOf(kPartsA))
  /\ UNCHANGED <<kLang, kNamespace, kPartsA, kPartsB, kKeyB>>
  /\ UNCHANGED <<rvars, dvars, wvars, hvars, pvars>>

\* The second call.
KeyGenerateB ==
  /\ kKeyA # Undefined
  /\ kKeyB = Undefined
  /\ kKeyB' = Some(keyOf(kPartsB))
  /\ UNCHANGED <<kLang, kNamespace, kPartsA, kPartsB, kKeyA>>
  /\ UNCHANGED <<rvars, dvars, wvars, hvars, pvars>>

KeyNext ==
  \/ KeyGenerateA
  \/ KeyGenerateB

SpecKey == KeyInit /\ [][KeyNext]_vars

\* ------------------------------------------------- idempotency keys: claims
\* C27: with the namespace fixed, equal lists of parts give equal keys, and
\* lists that differ in a part, in its content or in where the content is
\* divided into parts, give different keys.
C27_StableAndDiscriminating ==
  (kKeyA # Undefined /\ kKeyB # Undefined) =>
    (kKeyA = kKeyB <=> kPartsA = kPartsB)

\* ------------------------------------------- retry executor: order of steps
\* The executor is suspended only between two attempts: a wait has been
\* entered only after an attempt, never after the attempt with the last
\* permitted index, never after a success, a terminal failure or an
\* exception of fn.
SleepsOnlyBetweenAttempts ==
  /\ sleeps <= calls
  /\ pc = "wait" =>
       /\ calls = attempt + 1
       /\ attempt < N
       /\ LastClass \notin {"success", "terminal", "thrown"}

\* C29 as stated: the executor is suspended only between two attempts, so a
\* run of k attempts has at most k - 1 sleeps.
C29_Original ==
  /\ SleepsOnlyBetweenAttempts
  /\ (pc = "done" /\ calls >= 1) => sleeps <= calls - 1

\* C29 amended: the executor is suspended only between two attempts, and a
\* run of k attempts has at most k - 1 sleeps, except a Go run that is
\* cancelled during a wait: it returns ctx.Err() out of that wait, which is
\* then its k-th sleep.
C29_Amended ==
  /\ SleepsOnlyBetweenAttempts
  /\ (pc = "done" /\ calls >= 1) =>
       IF lang = "go" /\ ret = Failed(CtxErr)
       THEN cancelled /\ sleeps <= calls
       ELSE sleeps <= calls - 1

\* C29 witness: a run of three attempts that slept twice, between them.
C29_Witness ==
  /\ pc = "done"
  /\ calls = 3
  /\ sleeps = 2

\* No attempt is in flight unless the executor is inside fn, and the attempt
\* in flight has the index that equals the number of attempts before it, all
\* of which have returned.
AttemptsInSequence ==
  IF pc = "infn"
  THEN attempt = calls - 1 /\ Len(hist) = calls - 1
  ELSE Len(hist) = calls

\* fn is invoked from the loop head only, with the index that follows the
\* last one; from an attempt the executor goes straight on to the next one
\* only when the computed wait is zero, and it leaves a wait for the next
\* attempt only when the timer has fired.
NextAttemptAfterWait ==
  /\ calls' # calls =>
       /\ calls' = calls + 1
       /\ pc = "call" /\ pc' = "infn"
       /\ attempt = calls /\ attempt' = attempt
  /\ attempt' # attempt =>
       /\ attempt' = attempt + 1
       /\ pc' = "call"
       /\ pc = "infn" => (nDelay' = nDelay + 1 /\ delay' = 0)
       /\ pc = "wait" => (delay > 0 /\ ~(lang = "go" /\ cancelled))
       /\ pc \in {"infn", "wait"}
  /\ (pc = "infn" /\ pc' = "wait") => (nDelay' = nDelay + 1 /\ delay' > 0)

\* C30: in one retry sequence fn is invoked with the indices 0, 1, 2, ...
\* in this order, none left out and none repeated; attempt i + 1 starts only
\* after attempt i has returned and the wait computed for index i is over;
\* no two attempts overlap.
C30_SequentialAttempts ==
  []AttemptsInSequence /\ [][NextAttemptAfterWait]_vars

\* C30 witness: the third attempt, index 2, is in flight after two attempts
\* that have returned and two waits.
C30_Witness ==
  /\ pc = "infn"
  /\ calls = 3
  /\ attempt = 2
  /\ sleeps = 2
  /\ Len(hist) = 2

\* ========================================================= concurrent calls
\* Two calls on one client that run interleaved: each is a run of the retry
\* executor or of the polling waiter with its own attempt or fetch operation.
\* They share the client's RetryConfig, the clock and the random source; the
\* executor's `lastError` and `attempt` and the waiter's deadline, timer and
\* ticker are local variables of the call.
Calls == {1, 2}
PairMaxTime == 2
PairEvents ==
  {ev \in ResponseEvents :
     ev.bodyOk /\ ev.retryAfter = Undefined /\ ev.status \in {200, 400, 503}}
  \cup {FaultEvent("network")}
PairFetches == {Fetched("posted"), Fetched("verified"), FetchFailed(FetchError)}
PairRnds == {0, JitterRes - 1}
PairTsConfigs ==
  [maxRetries : {-1, 1}, backoff : {"none", "exponential"},
   baseDelayMs : {Undefined}, maxDelayMs : {Undefined}]
PairGoConfigs ==
  [MaxRetries : {-1, 1}, Backoff : {"none", "exponential"},
   BaseDelay : {1 * Second}, MaxDelay : {30 * Second}]
PairTsOptions == [pollIntervalMs |-> Some(1), timeoutMs |-> Some(2)]
PairGoOptions == [PollInterval |-> 1, Timeout |-> 2]

\* The local variables of a call at its start.
Locals(kind) ==
  [kind |-> kind, pc |-> IF kind = "retry" THEN "call" ELSE "new",
   attempt |-> 0, calls |-> 0, sleeps |-> 0, lastError |-> NoError,
   ret |-> NoReturn, wret |-> WaitPending,
   born |-> 0, deadline |-> 0, wake |-> 0, took |-> 0]

\* What a call receives in one step: the HTTP event of its attempt and its
\* random draw, what its fetch handed back, its reading of the clock.
Input(op, ev, rnd, fetched, now) ==
  [op |-> op, ev |-> ev, rnd |-> rnd, fetched |-> fetched, now |-> now]
Plain(op) == Input(op, NoEvent, 0, NoFetch, 0)
AtTime(op, now) == Input(op, NoEvent, 0, NoFetch, now)

\* One step of a retry call on its own local variables.
retryStep(self, e) ==
  CASE e.op = "call" -> [self EXCEPT !.pc = "infn", !.calls = @ + 1]
    [] e.op = "fall" ->
         [self EXCEPT
            !.pc = "done",
            !.ret = IF self.lastError # NoError THEN Failed(self.lastError)
                    ELSE IF pLang = "ts" THEN Failed(GenericError)
                    ELSE Returned(NoValue)]
    [] e.op = "return" ->
         LET st == IF pLang = "ts"
                   THEN executeWithRetry_body(requestAttempt(e.ev, self.attempt),
                                              self.attempt, pConfig,
                                              self.lastError, e.rnd)
                   ELSE retryDo_body(doRequest(e.ev, self.attempt), self.attempt,
                                     pConfig, FALSE, self.lastError, e.rnd)
         IN [self EXCEPT
               !.pc = st.next,
               !.attempt = IF st.next = "call" THEN @ + 1 ELSE @,
               !.sleeps = IF st.next = "wait" THEN @ + 1 ELSE @,
               !.lastError = st.lastError,
               !.ret = st.ret]
    [] e.op = "timer" -> [self EXCEPT !.pc = "call", !.attempt = @ + 1]

\* One step of a waiting call on its own local variables.
waitStep(self, e) ==
  CASE e.op = "begin" ->
         IF pLang = "ts"
         THEN [self EXCEPT !.pc = "head", !.born = e.now,
                           !.deadline = e.now + timeoutOf(PairTsOptions)]
         ELSE [self EXCEPT !.pc = "check", !.calls = @ + 1, !.born = e.now,
                           !.took = e.now,
                           !.deadline = e.now + timeoutOf_go(PairGoOptions)]
    [] e.op = "head" ->
         IF e.now < self.deadline
         THEN [self EXCEPT !.pc = "check", !.calls = @ + 1]
         ELSE [self EXCEPT
                 !.pc = "done",
                 !.wret = WaitFailed(TimeoutError(timeoutOf(PairTsOptions)))]
    [] e.op = "fetched" ->
         LET st == IF pLang = "ts"
                   THEN waitForCompletion_body(e.fetched, e.now, self.deadline,
                                               pollIntervalOf(PairTsOptions),
                                               timeoutOf(PairTsOptions))
                   ELSE WaitForCompletion_check(e.fetched)
         IN [self EXCEPT
               !.pc = st.next,
               !.wret = st.ret,
               !.wake = st.wake,
               !.sleeps = IF st.next \in {"sleep", "select"} THEN @ + 1 ELSE @]
    [] e.op = "wake" -> [self EXCEPT !.pc = "head"]
    [] e.op = "tick" ->
         [self EXCEPT !.pc = "check", !.calls = @ + 1, !.took = e.now]
    [] e.op = "ctxdone" ->
         [self EXCEPT
            !.pc = "done",
            !.wret = WaitFailed(TimeoutError(timeoutOf_go(PairGoOptions)))]

step(self, e) ==
  IF self.kind = "retry" THEN retryStep(self, e) ELSE waitStep(self, e)

\* The variables that call i works on: its own.
localsOf_shared(inv, i) == [inv[i] EXCEPT !.attempt = inv[1].attempt]
localsOf(inv, i) == inv[i]

PairInit ==
  /\ RetryIdle
  /\ DelayIdle
  /\ WaitIdle
  /\ HookIdle
  /\ KeyIdle
  /\ pLang \in {"ts", "go"}
  /\ pConfig \in IF pLang = "ts" THEN PairTsConfigs ELSE PairGoConfigs
  /\ pNow = 0
  /\ pInv \in {<<Locals(a), Locals(b)>> :
                 a \in {"retry", "wait"}, b \in {"retry", "wait"}}
  /\ pLog = <<<<>>, <<>>>>

\* Call i takes a step on the input e.
Take(i, e) ==
  /\ pInv' = [pInv EXCEPT ![i] = step(localsOf(pInv, i), e)]
  /\ pLog' = [pLog EXCEPT ![i] = Append(@, e)]
  /\ UNCHANGED <<pLang, pConfig, pNow>>
  /\ UNCHANGED <<rvars, dvars, wvars, hvars, kvars>>

\* Time passes, as long as a waiting call is under way.
PairClock ==
  /\ pNow < PairMaxTime
  /\ \E i \in Calls : pInv[i].kind = "wait" /\ pInv[i].pc \notin {"new", "done"}
  /\ pNow' = pNow + 1
  /\ UNCHANGED <<pLang, pConfig, pInv, pLog>>
  /\ UNCHANGED <<rvars, dvars, wvars, hvars, kvars>>

MaxRetriesOf(cfg) == IF pLang = "ts" THEN cfg.maxRetries ELSE cfg.MaxRetries

\* A retry call invokes its fn.
PairCall ==
  \E i \in Calls :
    /\ pInv[i].kind = "retry" /\ pInv[i].pc = "call"
    /\ pInv[i].attempt <= MaxRetriesOf(pConfig)
    /\ Take(i, Plain("call"))

\* A retry call leaves its loop without a return (maxRetries < 0).
PairFall ==
  \E i \in Calls :
    /\ pInv[i].kind = "retry" /\ pInv[i].pc = "call"
    /\ ~(pInv[i].attempt <= MaxRetriesOf(pConfig))
    /\ Take(i, Plain("fall"))

\* The fn of a retry call returns.
PairReturn ==
  \E i \in Calls :
    /\ pInv[i].kind = "retry" /\ pInv[i].pc = "infn"
    /\ \E ev \in PairEvents, rnd \in PairRnds :
         Take(i, Input("return", ev, rnd, NoFetch, 0))

\* The sleep of a retry call ends.
PairTimer ==
  \E i \in Calls :
    /\ pInv[i].kind = "retry" /\ pInv[i].pc = "wait"
    /\ Take(i, Plain("timer"))

\* A waiting call starts: it reads the clock for its deadline; in Go it
\* creates its ticker and starts its first fetch.
PairBegin ==
  \E i \in Calls :
    /\ pInv[i].kind = "wait" /\ pInv[i].pc = "new"
    /\ Take(i, AtTime("begin", pNow))

\* waitForCompletion tests its loop condition.
PairHead ==
  \E i \in Calls :
    /\ pInv[i].kind = "wait" /\ pInv[i].pc = "head"
    /\ Take(i, AtTime("head", pNow))

\* The fetch of a waiting call returns.
PairFetched ==
  \E i \in Calls :
    /\ pInv[i].kind = "wait" /\ pInv[i].pc = "check"
    /\ \E f \in PairFetches : Take(i, Input("fetched", NoEvent, 0, f, pNow))

\* The setTimeout of waitForCompletion fires.
PairWake ==
  \E i \in Calls :
    /\ pInv[i].kind = "wait" /\ pInv[i].pc = "sleep"
    /\ pNow >= pInv[i].wake
    /\ Take(i, Plain("wake"))

\* WaitForCompletion takes a tick of its ticker.
PairTick ==
  \E i \in Calls :
    /\ pInv[i].kind = "wait" /\ pInv[i].pc = "select"
    /\ tickBetween(pInv[i].took - pInv[i].born, pNow - pInv[i].born,
                   pollIntervalOf_go(PairGoOptions))
    /\ Take(i, AtTime("tick", pNow))

\* WaitForCompletion finds its ctx done.
PairCtxDone ==
  \E i \in Calls :
    /\ pInv[i].kind = "wait" /\ pInv[i].pc = "select"
    /\ pNow >= pInv[i].deadline
    /\ Take(i, Plain("ctxdone"))

PairNext ==
  \/ PairClock
  \/ PairCall
  \/ PairFall
  \/ PairReturn
  \/ PairTimer
  \/ PairBegin
  \/ PairHead
  \/ PairFetched
  \/ PairWake
  \/ PairTick
  \/ PairCtxDone

SpecPair == PairInit /\ [][PairNext]_vars

\* --------------------------------------------------- concurrent calls: claim
\* A call run alone on the inputs in log, from its start.
RECURSIVE RunAlone(_, _)
RunAlone(self, log) ==
  IF log = <<>> THEN self ELSE RunAlone(step(self, Head(log)), Tail(log))

LiveTsWaitOptions ==
  [pollIntervalMs : {Undefined, Some(0), Some(1)},
   timeoutMs : {Some(-1), Some(0), Some(1), Some(2)}]
LiveGoWaitOptions ==
  [PollInterval : {0, 1, 2}, Timeout : {1, 2}]

WaitLiveInit ==
  /\ WaitInit
  /\ wOptions \in IF wLang = "ts" THEN LiveTsWaitOptions ELSE LiveGoWaitOptions

\* `await this.get(taskId)` settles, and the clock has moved on by then.
WaitTsFetchedLater == WaitTsFetched /\ wNow' > wNow
\* GetTask returns, and the clock has moved on by then.
WaitGoFetchedLater == WaitGoFetched /\ wNow' > wNow

\* The steps of the waiter itself: everything but the caller's cancel.
WaitRuns ==
  \/ WaitTsCheck
  \/ WaitTsDeadline
  \/ WaitTsFetchedLater
  \/ WaitTsWake
  \/ WaitGoFirst
  \/ WaitGoFetchedLater
  \/ WaitGoPark
  \/ WaitGoTime
  \/ WaitGoTick
  \/ WaitGoCtxDone

WaitLiveNext ==
  \/ WaitCancel
  \/ WaitRuns

\* Every fetch returns, every timer fires, the event loop and the Go
\* scheduler run what is ready; a select with several ready cases picks each
\* of them sooner or later (the choice is uniformly random).
SpecWaitLive ==
  /\ WaitLiveInit
  /\ [][WaitLiveNext]_vars
  /\ WF_vars(WaitRuns)
  /\ SF_vars(WaitGoCtxDone)

\* The waiter has handed back one of its three outcomes.
OneOutcome ==
  \/ wRet.kind = "value" /\ wRet.status \in TerminalSet
  \/ wRet.kind = "error" /\ wRet.err.kind = "timeout"
  \/ wRet.kind = "error" /\ wLast.err # NoWaitErr /\ wRet.err = wLast.err
\* Once the waiter has returned nothing of it moves.
Absorbing ==
  wPc = "done" => UNCHANGED <<wPc, wRet, wChecks, wSleeps, wNow, wWake, wTick>>

\* C31: when every fetch returns and the timeout is finite the waiter
\* eventually returns, with a terminal entity, a timeout error or the fetch's
\* error, and after it has returned it makes no further check and no further
\* sleep.
C31_WaiterTerminates ==
  /\ <>(wPc = "done")
  /\ [](wPc = "done" => OneOutcome)
  /\ [](wPc # "done" => wRet = WaitPending)
  /\ [][Absorbing]_vars
C31_Witness ==
  /\ wPc = "done"
  /\ TimedOut
  /\ wChecks >= 2
  /\ wSleeps >= 1
  /\ wNow >= wDeadline

\* ------------------------------------- delay calculator: maxDelay < baseDelay
\* The call has a growing policy, no server hint and a cap below the base.
CapBelowBase ==
  /\ dBackoff \in {"exponential", "linear"}
  /\ dNoHint
  /\ dMaxDelay < dBaseDelay

\* C32: when maxDelay < baseDelay, with policy exponential or linear and no
\* server hint, calculateDelay returns exactly maxDelay for every attempt
\* index and every jitter draw.
C32_ClampHidesGrowth ==
  (dOut # Undefined /\ CapBelowBase) => Get(dOut) = dMaxDelay

\* ------------------------------------------- retry executor: negative limit
\* retryDo reports success: it returns a nil error.
GoReportsSuccess == lang = "go" /\ pc = "done" /\ ret.kind = "value"

\* C33: for every MaxRetries a caller can configure, negative ones included,
\* retryDo invokes the attempt at least once and returns a nil error only if
\* an invocation of the attempt returned a nil error.
C33_AtLeastOneAttempt ==
  /\ (lang = "go" /\ pc = "done") => calls >= 1
  /\ GoReportsSuccess => (calls >= 1 /\ lastOut.err = NoError)

\* --------------------------------------- retry executor: cancelled context
\* C34: in retryDo, when the context was already cancelled by the time a
\* failed attempt returned, no new attempt is started, whatever the backoff
\* policy, the computed delay and the status code of the failure.
C34_NoAttemptAfterCancel ==
  (lang = "go" /\ pc = "infn" /\ attempt >= 1) => ~ctxSeen

\* ------------------------------------- retry executor: response and flag
\* The last settled attempt of executeWithRetry resolved to a result that
\* carries a response.
TsResponseCarried ==
  lang = "ts" /\ ~lastOut.throws /\ lastOut.result.response # NoValue

\* C35: in executeWithRetry an attempt result that carries a defined response
\* ends the sequence with that response, whatever its shouldRetry flag and
\* whatever the attempt index.
C35_ResponseEndsRun ==
  TsResponseCarried =>
    (pc = "done" /\ ret = Returned(lastOut.result.response))

\* --------------------------------------- polling waiter: timeout unchecked
\* C36: the waiter never reports a timeout without having performed at least
\* one status check, for every timeout and pollInterval a caller can pass,
\* a timeout of 0 or below included.
C36_TimeoutAfterCheck == TimedOut => wChecks >= 1

\* ------------------------------------- retry executor: exception of fn
\* The last call of fn in executeWithRetry threw instead of resolving.
TsThrown == lang = "ts" /\ lastOut.throws
\* The step on which fn throws starts no sleep and no attempt.
ThrowStep ==
  (lang = "ts" /\ lastOut'.throws) =>
    (sleeps' = sleeps /\ nDelay' = nDelay /\ calls' = calls /\ attempt' = attempt)

\* C37: in executeWithRetry an exception thrown by the attempt function
\* itself propagates to the caller at once: no sleep occurs and no further
\* attempt is invoked, at whatever attempt index and however many retries
\* remain.
C37_ExceptionPropagates ==
  /\ [](TsThrown => (pc = "done" /\ ret = Failed(lastOut.exc)
                      /\ calls = attempt + 1))
  /\ [][ThrowStep]_vars
C37_Witness ==
  /\ TsThrown
  /\ pc = "done"
  /\ attempt = 1
  /\ N > attempt
  /\ sleeps = 1
  /\ ret = Failed(lastOut.exc)

\* --------------------------------------- delay calculator: sign of the delay
\* C38: for every attempt index and every config with BaseDelay > 0 and
\* MaxDelay >= 0, Go calculateDelay returns a non-negative duration: the
\* product of BaseDelay and the growth factor, plus jitter, never wraps to a
\* negative value.
C38_DelayNonNegative ==
  (dLang = "go" /\ dOut # Undefined /\ dBaseDelay > 0 /\ dMaxDelay >= 0)
    => Get(dOut) >= 0

\* ----------------------------------------- idempotency keys: both languages
\* The key of the specification: the namespace, a colon, and the first
\* KeyHashHexLen hex digits of the SHA-256 of the parts joined by ":".
SpecifiedKey(namespace, parts) ==
  namespace \o Colon \o SubSeq(Sha256Hex(join(parts, Colon)), 1, KeyHashHexLen)

TsTolerance ==
  IF hLang = "ts" THEN OrDefault(hTolerance, DefaultToleranceSeconds)
  ELSE hTolerance \div Second
GoTolerance == TsTolerance * Second
\* What each verifier returns on the run's header, payload, secret and clock.
TsVerdict ==
  verifyWebhookSignature(hPayload, Get(hHeader), hSecret, Some(TsTolerance), hNow)
GoVerdict ==
  Some(VerifyWebhookSignature(hPayload, Get(hHeader), hSecret, GoTolerance, hNow))

\* C40: verifyWebhookSignature and VerifyWebhookSignature return the same
\* verdict for every payload, header, secret and clock reading with the same
\* positive tolerance, headers with repeated t= or v1= segments, t values
\* with trailing non-digit characters and v1 values of odd length or with
\* non-hex characters included.
C40_SameVerdict ==
  (Verified /\ TsTolerance > 0) =>
    /\ TsVerdict = GoVerdict
    /\ hVerdict = TsVerdict

====
